---- MODULE Spec2Model ----
(***************************************************************************)
(* Type-merging delegation engine of graphql-tools (packages/delegate):    *)
(* external objects and mergeExternalObjects, the merged-parent planner    *)
(* (getMergedParentsFromFieldNodes of getMergedParent.ts, "V1", and        *)
(* getMergedParents of defaultMergedResolver.ts, "V2"), the per-parent     *)
(* batch loader, and the receiver of deferred patches.                     *)
(***************************************************************************)
EXTENDS Integers, Sequences, FiniteSets, TLC

(***************************************************************************)
(* Bounds of the model.                                                    *)
(***************************************************************************)
\* largest number of infos (field resolves) batched on one parent in a tick
MaxInfos == 2
\* largest number of source objects handed to one mergeExternalObjects call
\* in the specification that applies it to drawn inputs
MaxSources == 1
\* largest number of patches the subschema's stream produces
MaxPatches == 2

\* objects on the heap when annotate and merge are applied on their own
MaxObjects == 3
\* field resolves on the two parents when the loaders are looked at
MaxLoads == 3
\* the last tick in which fields are resolved
MaxTicks == 3
\* default merged resolver calls, on any parent, in one tick
MaxResolves == 3

(***************************************************************************)
(* The stitched schema the planner works on: one merged type served by     *)
(* the origin subschema "A" and three other subschemas.                    *)
(***************************************************************************)
None == "none"

Subschemas == <<"A", "B", "C", "D">>

SubschemaSet == {Subschemas[i] : i \in DOMAIN Subschemas}

\* subschema.transformedSchema.getType(typeName).getFields(), per subschema
TypeFields(s) ==
  CASE s = "A" -> {"id", "name", "addr"}
    [] s = "B" -> {"id", "email", "nick"}
    [] s = "C" -> {"nick", "score"}
    [] s = "D" -> {"zip", "bonus", "addr"}
    [] OTHER -> {}

\* getNamedType(field.type).getFields() of an object-typed field
SubFields(s, f) ==
  CASE s = "A" /\ f = "addr" -> {"city"}
    [] s = "D" /\ f = "addr" -> {"zip", "city"}
    [] OTHER -> {}

FieldNames == UNION {TypeFields(s) : s \in SubschemaSet} \cup {"__typename"}

ServedBy(f) == SelectSeq(Subschemas, LAMBDA s : f \in TypeFields(s))

\* mergedTypeInfo.uniqueFields[f]: the subschema, when exactly one serves f
uniqueFields(f) == IF Len(ServedBy(f)) = 1 THEN ServedBy(f)[1] ELSE None

\* mergedTypeInfo.nonUniqueFields[f]: the subschemas serving f, otherwise
\* (<<>> stands for an absent entry)
nonUniqueFields(f) == IF Len(ServedBy(f)) > 1 THEN ServedBy(f) ELSE <<>>

\* mergedTypeInfo.targetSubschemas.get(s): every other subschema of the type
targetSubschemasOf(s) == SelectSeq(Subschemas, LAMBDA t : t # s)

(***************************************************************************)
(* Field nodes and selection sets.  A field node has a name, an optional   *)
(* alias ("" when absent) and an optional sub-selection (<<>> when         *)
(* absent; sub-selections are sequences of plain field names).             *)
(***************************************************************************)
Node(n, a) == [name |-> n, alias |-> a, sub |-> <<>>]

NodeSub(n, sub) == [name |-> n, alias |-> "", sub |-> sub]

\* fieldNode.alias?.value ?? fieldNode.name.value
ResponseKey(fieldNode) ==
  IF fieldNode.alias # "" THEN fieldNode.alias ELSE fieldNode.name

SeqToSet(q) == {q[i] : i \in DOMAIN q}

Includes(q, x) == \E i \in DOMAIN q : q[i] = x

RECURSIVE SeqCat(_)
SeqCat(qq) == IF qq = <<>> THEN <<>> ELSE Head(qq) \o SeqCat(Tail(qq))

(***************************************************************************)
(* The merge configuration of the stitching info, an input of the          *)
(* planner: mergedTypeInfo.selectionSets (the key selection set of each    *)
(* target), mergedTypeInfo.fieldSelectionSets (the selection sets of its   *)
(* computed fields) and whether stitchingInfo.selectionSetsByField holds   *)
(* an entry for the type.  An absent (null) selection set is <<>>.         *)
(***************************************************************************)
Sel(names) == [i \in DOMAIN names |-> Node(names[i], "")]

KeyOptions(t) ==
  CASE t = "B" -> {Sel(<<"id">>)}
    [] t = "C" -> {Sel(<<"email">>), Sel(<<"id">>)}
    [] t = "D" -> {Sel(<<"zip">>), Sel(<<"score">>)}
    [] OTHER -> {<<>>}

\* the fields that may be computed fields of a subschema
ComputedFields == {"nick"}

NoFieldSel == [defined |-> FALSE, of |-> [f \in ComputedFields |-> <<>>]]

\* B.nick is either a plain field or computed from C's score
FieldSelOptions(t) ==
  IF t = "B"
  THEN {NoFieldSel, [defined |-> TRUE, of |-> [f \in ComputedFields |-> Sel(<<"score">>)]]}
  ELSE {NoFieldSel}

Configs ==
  {c \in [sel : [SubschemaSet -> UNION {KeyOptions(t) : t \in SubschemaSet}],
          fsel : [SubschemaSet -> UNION {FieldSelOptions(t) : t \in SubschemaSet}],
          byField : BOOLEAN] :
     /\ \A t \in SubschemaSet : c.sel[t] \in KeyOptions(t)
     /\ \A t \in SubschemaSet : c.fsel[t] \in FieldSelOptions(t)
     /\ (\E t \in SubschemaSet : c.fsel[t].defined) => c.byField}

\* mergedTypeInfo.fieldSelectionSets.get(t)[fieldName]
FieldSelectionSet(c, t, fieldName) ==
  IF fieldName \in ComputedFields THEN c.fsel[t].of[fieldName] ELSE <<>>

(***************************************************************************)
(* typesContainSelectionSet.  A type is <<subschema, path>>: the merged    *)
(* type of the subschema (path "") or the type of its object field path.   *)
(* The loop returns from inside its body at the first selection that has   *)
(* a sub-selection.                                                        *)
(***************************************************************************)
FieldsOfType(type) ==
  IF type[2] = "" THEN TypeFields(type[1]) ELSE SubFields(type[1], type[2])

RECURSIVE typesContainSelectionSet(_, _)
typesContainSelectionSet(types, selectionSet) ==
  IF selectionSet = <<>> THEN TRUE
  ELSE LET selection == Head(selectionSet)
           fields == SelectSeq(types, LAMBDA t : selection.name \in FieldsOfType(t))
       IN IF fields = <<>> THEN FALSE
          ELSE IF selection.sub # <<>>
          THEN typesContainSelectionSet(
                 [i \in DOMAIN fields |-> <<fields[i][1], selection.name>>],
                 selection.sub)
          ELSE typesContainSelectionSet(types, Tail(selectionSet))

\* sources: the sequence of source subschemas (a single subschema is the
\* one-element sequence)
subschemaTypesContainSelectionSet(sources, selectionSet) ==
  typesContainSelectionSet([i \in DOMAIN sources |-> <<sources[i], "">>], selectionSet)

(***************************************************************************)
(* Step A: sortSubschemasByProxiability.                                   *)
(***************************************************************************)
IsProxiable(c, sources, t, fieldNodes) ==
  IF c.sel[t] # <<>> /\ ~subschemaTypesContainSelectionSet(sources, c.sel[t])
  THEN FALSE
  ELSE \/ ~c.fsel[t].defined
       \/ \A i \in DOMAIN fieldNodes :
            LET fieldSelectionSet == FieldSelectionSet(c, t, fieldNodes[i].name)
            IN \/ fieldSelectionSet = <<>>
               \/ subschemaTypesContainSelectionSet(sources, fieldSelectionSet)

sortSubschemasByProxiability(c, sources, targets, fieldNodes) ==
  [proxiableSubschemas |->
     SelectSeq(targets, LAMBDA t : IsProxiable(c, sources, t, fieldNodes)),
   nonProxiableSubschemas |->
     SelectSeq(targets, LAMBDA t : ~IsProxiable(c, sources, t, fieldNodes))]

(***************************************************************************)
(* Step B: buildDelegationPlan.  The delegation map is kept as the         *)
(* sequence of its entries [s, selections] in insertion order, which is    *)
(* the order Map.forEach visits them.                                      *)
(***************************************************************************)
EmptyPlan == [delegationMap |-> <<>>, proxiableFieldNodes |-> <<>>,
              unproxiableFieldNodes |-> <<>>]

MapHas(dm, s) == \E i \in DOMAIN dm : dm[i].s = s

\* a delegation map that opens a bucket for every field node
MapPush_append(dm, s, fieldNode) == Append(dm, [s |-> s, selections |-> <<fieldNode>>])

\* delegationMap.get(s).push(fieldNode), or delegationMap.set(s, [fieldNode])
MapPush(dm, s, fieldNode) ==
  IF MapHas(dm, s)
  THEN [i \in DOMAIN dm |->
          IF dm[i].s = s
          THEN [dm[i] EXCEPT !.selections = Append(@, fieldNode)]
          ELSE dm[i]]
  ELSE Append(dm, [s |-> s, selections |-> <<fieldNode>>])

\* a plan that handles __typename like any other field node
PlanFieldNode_typename(plan, fieldNode, proxiableSubschemas) ==
  LET unproxiable == [plan EXCEPT !.unproxiableFieldNodes = Append(@, fieldNode)]
      proxiable(s) == [plan EXCEPT !.proxiableFieldNodes = Append(@, fieldNode),
                                   !.delegationMap = MapPush(@, s, fieldNode)]
      uniqueSubschema == uniqueFields(fieldNode.name)
      nonUnique == nonUniqueFields(fieldNode.name)
  IN IF uniqueSubschema # None
     THEN IF ~Includes(proxiableSubschemas, uniqueSubschema)
          THEN unproxiable
          ELSE proxiable(uniqueSubschema)
     ELSE IF nonUnique = <<>> THEN unproxiable
     ELSE LET nonUniqueSubschemas ==
                SelectSeq(nonUnique, LAMBDA s : Includes(proxiableSubschemas, s))
              existing == SelectSeq(nonUniqueSubschemas,
                                    LAMBDA s : MapHas(plan.delegationMap, s))
          IN IF nonUniqueSubschemas = <<>> THEN unproxiable
             ELSE IF existing # <<>> THEN proxiable(existing[1])
             ELSE proxiable(nonUniqueSubschemas[1])

\* a plan that gives a field of several subschemas to the first proxiable
\* one, whether or not another is a target of the round already
PlanFieldNode_firstOwner(plan, fieldNode, proxiableSubschemas) ==
  LET unproxiable == [plan EXCEPT !.unproxiableFieldNodes = Append(@, fieldNode)]
      proxiable(s) == [plan EXCEPT !.proxiableFieldNodes = Append(@, fieldNode),
                                   !.delegationMap = MapPush(@, s, fieldNode)]
      uniqueSubschema == uniqueFields(fieldNode.name)
      nonUnique == nonUniqueFields(fieldNode.name)
  IN IF fieldNode.name = "__typename" THEN plan
     ELSE IF uniqueSubschema # None
     THEN IF ~Includes(proxiableSubschemas, uniqueSubschema)
          THEN unproxiable
          ELSE proxiable(uniqueSubschema)
     ELSE IF nonUnique = <<>> THEN unproxiable
     ELSE LET nonUniqueSubschemas ==
                SelectSeq(nonUnique, LAMBDA s : Includes(proxiableSubschemas, s))
          IN IF nonUniqueSubschemas = <<>> THEN unproxiable
             ELSE proxiable(nonUniqueSubschemas[1])

\* the body of fieldNodes.forEach for one field node
PlanFieldNode(plan, fieldNode, proxiableSubschemas) ==
  LET unproxiable == [plan EXCEPT !.unproxiableFieldNodes = Append(@, fieldNode)]
      proxiable(s) == [plan EXCEPT !.proxiableFieldNodes = Append(@, fieldNode),
                                   !.delegationMap = MapPush(@, s, fieldNode)]
      uniqueSubschema == uniqueFields(fieldNode.name)
      nonUnique == nonUniqueFields(fieldNode.name)
  IN IF fieldNode.name = "__typename" THEN plan
     ELSE IF uniqueSubschema # None
     THEN IF ~Includes(proxiableSubschemas, uniqueSubschema)
          THEN unproxiable
          ELSE proxiable(uniqueSubschema)
     ELSE IF nonUnique = <<>> THEN unproxiable
     ELSE LET nonUniqueSubschemas ==
                SelectSeq(nonUnique, LAMBDA s : Includes(proxiableSubschemas, s))
              existing == SelectSeq(nonUniqueSubschemas,
                                    LAMBDA s : MapHas(plan.delegationMap, s))
          IN IF nonUniqueSubschemas = <<>> THEN unproxiable
             ELSE IF existing # <<>> THEN proxiable(existing[1])
             ELSE proxiable(nonUniqueSubschemas[1])

RECURSIVE PlanFrom(_, _, _)
PlanFrom(plan, fieldNodes, proxiableSubschemas) ==
  IF fieldNodes = <<>> THEN plan
  ELSE PlanFrom(PlanFieldNode(plan, Head(fieldNodes), proxiableSubschemas),
                Tail(fieldNodes), proxiableSubschemas)

buildDelegationPlan(fieldNodes, proxiableSubschemas) ==
  PlanFrom(EmptyPlan, fieldNodes, proxiableSubschemas)

\* combineSubschemas(sourceSubschemaOrSourceSubschemas, proxiableSubschemas)
combineSubschemas(sources, additionalSubschemas) == sources \o additionalSubschemas

(***************************************************************************)
(* External objects.  The heap is a sequence of objects addressed by       *)
(* their index; field-subschema maps are objects of their own (maps),      *)
(* because mergeExternalObjects hands the target's map on to its result.   *)
(*   data       the enumerable string-keyed properties, by response key    *)
(*   fsm        index of the FIELD_SUBSCHEMA_MAP_SYMBOL map, 0: undefined  *)
(*   origin     OBJECT_SUBSCHEMA_SYMBOL, None: undefined                   *)
(*   errorsDef  whether UNPATHED_ERRORS_SYMBOL is defined                  *)
(*   errors     the unpathed errors                                        *)
(*   readonly   the annotations were set by Object.defineProperties with   *)
(*              a value only, which makes them non-writable                *)
(***************************************************************************)
RKeys == {"id", "name", "email", "nick", "score", "zip", "bonus", "addr", "s"}

SubKeys == {"zip", "city"}

NoSub == [k \in SubKeys |-> <<>>]

Undef == [t |-> "undef"]

NullV == [t |-> "null"]

Leaf(v) == [t |-> "leaf", v |-> v]

\* an error located at path.concat([responseKey])
ErrAt(e, responseKey) == [t |-> "err", v |-> <<e, responseKey>>]

\* an object value: its own keys, <<>> where it has none
ObjV(f) == [t |-> "obj", f |-> f]

NoData == [k \in RKeys |-> Undef]

NoMap == [k \in RKeys |-> None]

\* Object.keys(data)
KeysOf(data) == {k \in RKeys : data[k] # Undef}

PlainObject(data) ==
  [data |-> data, fsm |-> 0, origin |-> None, errorsDef |-> FALSE,
   errors |-> <<>>, readonly |-> FALSE]

EmptyHeap == [objs |-> <<>>, maps |-> <<>>]

\* a new object that is not an external object
AllocPlain(h, data) == [h EXCEPT !.objs = Append(@, PlainObject(data))]

\* isExternalObject(data): data[UNPATHED_ERRORS_SYMBOL] !== undefined
isExternalObject(h, id) == h.objs[id].errorsDef

\* an annotation that records the subschema of the object's keys in the
\* first map there is, instead of giving the object a map of its own
annotateExternalObject_sharedMap(h, id, errors, subschema) ==
  IF h.maps = <<>>
  THEN [objs |-> [h.objs EXCEPT ![id] =
                    [@ EXCEPT !.fsm = 1, !.origin = subschema, !.errorsDef = TRUE,
                              !.errors = errors, !.readonly = TRUE]],
        maps |-> <<NoMap>>]
  ELSE [objs |-> [h.objs EXCEPT ![id] =
                    [@ EXCEPT !.fsm = 1, !.origin = subschema, !.errorsDef = TRUE,
                              !.errors = errors, !.readonly = TRUE]],
        maps |-> [h.maps EXCEPT ![1] =
                    [k \in RKeys |-> IF h.objs[id].data[k] # Undef THEN subschema
                                     ELSE @[k]]]]

\* annotateExternalObject(object, errors, subschema), errors a list
annotateExternalObject(h, id, errors, subschema) ==
  [objs |-> [h.objs EXCEPT ![id] =
               [@ EXCEPT !.fsm = Len(h.maps) + 1, !.origin = subschema,
                         !.errorsDef = TRUE, !.errors = errors,
                         !.readonly = TRUE]],
   maps |-> Append(h.maps, NoMap)]

\* getSubschema(object, responseKey)
getSubschema(h, id, responseKey) ==
  LET o == h.objs[id]
  IN IF o.fsm # 0 /\ h.maps[o.fsm][responseKey] # None
     THEN h.maps[o.fsm][responseKey]
     ELSE o.origin

(***************************************************************************)
(* mergeDeep of @graphql-tools/utils on two data records: a new record     *)
(* with the target's keys overlaid by the source's; a key that holds an    *)
(* object on both sides is merged recursively, every other key of the      *)
(* source replaces the target's.                                           *)
(***************************************************************************)
mergeDeep(target, source) ==
  [k \in RKeys |->
     IF source[k] = Undef THEN target[k]
     ELSE IF source[k].t = "obj" /\ target[k].t = "obj"
     THEN ObjV([sk \in SubKeys |->
                  IF source[k].f[sk] # <<>> THEN source[k].f[sk] ELSE target[k].f[sk]])
     ELSE source[k]]

(***************************************************************************)
(* mergeExternalObjects.  A source is [kind, id, e]: an external object of *)
(* the heap ("obj"), an Error ("err") or null ("null").                    *)
(***************************************************************************)
SrcObj(id) == [kind |-> "obj", id |-> id, e |-> ""]

SrcErr(e) == [kind |-> "err", id |-> 0, e |-> e]

SrcNull == [kind |-> "null", id |-> 0, e |-> ""]

\* Object.keys(collectFields(..., selectionSet, ...))
collectFields(selectionSet) == {ResponseKey(selectionSet[i]) : i \in DOMAIN selectionSet}

\* a merge whose failed sources leave null under their response keys
ResultOf_nulls(h, source, selectionSet) ==
  IF source.kind = "obj" THEN h.objs[source.id]
  ELSE PlainObject([k \in RKeys |->
         IF k \notin collectFields(selectionSet) THEN Undef ELSE NullV])

\* the entry of results for one source: the source itself, or the null
\* result of a failed source
ResultOf(h, source, selectionSet) ==
  IF source.kind = "obj" THEN h.objs[source.id]
  ELSE PlainObject([k \in RKeys |->
         IF k \notin collectFields(selectionSet) THEN Undef
         ELSE IF source.kind = "err" THEN ErrAt(source.e, k)
         ELSE NullV])

\* errors = errors.concat(source[UNPATHED_ERRORS_SYMBOL]) over the sources
\* that are objects; concat of undefined appends the value undefined
RECURSIVE SourceErrors(_, _)
SourceErrors(h, sources) ==
  IF sources = <<>> THEN <<>>
  ELSE LET source == Head(sources)
           own == IF source.kind # "obj" THEN <<>>
                  ELSE IF h.objs[source.id].errorsDef THEN h.objs[source.id].errors
                  ELSE <<"undefined">>
       IN own \o SourceErrors(h, Tail(sources))

\* results.reduce(mergeDeep, target), on the data
RECURSIVE ReduceMergeDeep(_, _)
ReduceMergeDeep(data, results) ==
  IF results = <<>> THEN data
  ELSE ReduceMergeDeep(mergeDeep(data, Head(results).data), Tail(results))

\* a merge that records the origin of a source for its keys and does not
\* look at the source's own map
WriteProvenance_origin(maps, m, result) ==
  [maps EXCEPT ![m] =
     [k \in RKeys |-> IF k \notin KeysOf(result.data) THEN @[k] ELSE result.origin]]

\* the body of results.forEach at lines 79-91 for one result, on the maps
WriteProvenance(maps, m, result) ==
  [maps EXCEPT ![m] =
     [k \in RKeys |->
        IF k \notin KeysOf(result.data) THEN @[k]
        ELSE IF result.fsm = 0 THEN result.origin
        ELSE IF maps[result.fsm][k] # None THEN maps[result.fsm][k]
        ELSE result.origin]]

RECURSIVE RebuildMap(_, _, _)
RebuildMap(maps, m, results) ==
  IF results = <<>> THEN maps
  ELSE RebuildMap(WriteProvenance(maps, m, Head(results)), m, Tail(results))

\* a merge that always starts from a new map
NewFieldSubschemaMap_fresh(h, target) ==
  [m |-> Len(h.maps) + 1, maps |-> Append(h.maps, NoMap)]

\* target[FIELD_SUBSCHEMA_MAP_SYMBOL] ?? Object.create(null): the index of
\* the map that is written, and the maps with it allocated when it is new
NewFieldSubschemaMap(h, target) ==
  IF h.objs[target].fsm # 0
  THEN [m |-> h.objs[target].fsm, maps |-> h.maps]
  ELSE [m |-> Len(h.maps) + 1, maps |-> Append(h.maps, NoMap)]

\* a merge that leaves out the assignment of the unpathed errors
Reannotate_withoutErrors(o, m, targetObj, errors) ==
  [o EXCEPT !.fsm = m, !.origin = targetObj.origin]

\* the three assignments at lines 93-95 on the combined result
Reannotate(o, m, targetObj, errors) ==
  [o EXCEPT !.fsm = m, !.origin = targetObj.origin, !.errorsDef = TRUE,
            !.errors = targetObj.errors \o errors]

\* Returns [objs, maps, result, threw]: the heap after the call, the index
\* of the returned object, and whether the call threw a TypeError instead
\* of returning (result is then 0).  With no result to merge, reduce
\* returns the target itself; otherwise the combined result is a new
\* object, which holds the target's annotations only where they are
\* enumerable (set by an earlier merge, not by defineProperties).  The
\* assignment at line 93 throws on a non-writable annotation, and line 95
\* throws when the target has no unpathed errors.
mergeExternalObjects(h, target, sources, selectionSets) ==
  LET results == [i \in DOMAIN sources |-> ResultOf(h, sources[i], selectionSets[i])]
      errors == SourceErrors(h, sources)
      targetObj == h.objs[target]
      fresh == results # <<>>
      combinedId == IF fresh THEN Len(h.objs) + 1 ELSE target
      data == ReduceMergeDeep(targetObj.data, results)
      combinedObj == IF ~fresh THEN targetObj
                     ELSE IF targetObj.readonly THEN PlainObject(data)
                     ELSE [targetObj EXCEPT !.data = data]
      new == NewFieldSubschemaMap(h, target)
      maps1 == RebuildMap(new.maps, new.m, results)
      objs1 == IF fresh THEN Append(h.objs, combinedObj) ELSE h.objs
  IN IF combinedObj.readonly
     THEN [objs |-> h.objs, maps |-> maps1, result |-> 0, threw |-> TRUE]
     ELSE IF ~targetObj.errorsDef
     THEN [objs |-> [objs1 EXCEPT ![combinedId].fsm = new.m,
                                  ![combinedId].origin = targetObj.origin],
           maps |-> maps1, result |-> 0, threw |-> TRUE]
     ELSE [objs |-> [objs1 EXCEPT ![combinedId] =
                       Reannotate(combinedObj, new.m, targetObj, errors)],
           maps |-> maps1, result |-> combinedId, threw |-> FALSE]

(***************************************************************************)
(* State of one operation on one external parent.                          *)
(***************************************************************************)
VARIABLES
  version,     \* "V1": getMergedParent.ts, "V2": defaultMergedResolver.ts
  cfg,         \* the merge configuration of the stitching info
  heap,        \* [objs, maps]: the objects and field-subschema maps
  pc,          \* "tick": resolvers run; "planning": the batch is dispatched
  batch,       \* the infos loaded on the parent's loader in this tick
  infoResult,  \* per resolved info: what the resolver's promise settled to
  rounds,      \* the planner's rounds, in order
  entry,       \* mergedParentMap of the invocation, by response key
  log,         \* the merged-type resolver invocations, in order
  mergeCalls,  \* the mergeExternalObjects calls: caller and target
  recv,        \* the receiver of the parent's stream
  ext,         \* the objects annotateExternalObject / mergeExternalObjects returned
  last,        \* the last operation on the heap, and the target's view before it
  behaviour,   \* how each subschema's merged-type resolver answers
  runs,        \* first rounds planned and merged for one batch on the parent
  loaders,     \* the WeakMap loaders: per key, the parent of the loader and its queue
  loads,       \* the loader.load(info) calls, in order
  calls,       \* the calls of the loaders' batch function, in order
  tick,        \* the current event-loop tick
  resolved,    \* the defaultMergedResolver calls on any parent, with their route
  delegationContext, \* the delegation context the transformers are built for
  implemented, \* per transform: the hooks its class defines
  transformers,\* the Transformer objects, in order of construction
  contexts,    \* the transformation-context objects, in order of creation
  hooks,       \* the transformRequest / transformResult calls on transforms, in order
  targetSchema,\* the target schema of the delegation
  originalRequest, \* the request document and variables handed to FilterToSchema
  passes,      \* the requests successive FilterToSchema passes returned
  wrapped,     \* a request through WrapFields: the selections, the context, the result
  receiver,    \* a Receiver with its stream, its pubsub and the requests made of it
  stitching,   \* the type candidates of a stitched schema and the types built from them
  validation,  \* a @merge directive under the stitching-directives validator
  sorting,     \* a source and target subschemas under sortSubschemasByProxiability
  merging,     \* mergeExternalObjects calls on a parent, with the heap before each
  batching     \* the infos of one batch and the field nodes made of them

loading == <<loaders, loads, calls, tick, resolved>>

filtering == <<targetSchema, originalRequest, passes>>

planning == <<merging, batching>>

gateway == <<receiver, stitching, validation, sorting, planning>>

delegation == <<delegationContext, implemented, transformers, contexts, hooks, filtering,
                wrapped, gateway>>

vars == <<version, cfg, heap, pc, batch, infoResult, rounds, entry, log,
          mergeCalls, recv, ext, last, behaviour, runs, loading, delegation>>

\* what the planner's steps leave alone
heapOps == <<ext, last, behaviour, runs, loading, delegation>>

\* no request is being filtered
NoFiltering ==
  /\ targetSchema = <<>>
  /\ originalRequest = <<>>
  /\ passes = <<>>

\* no request is being wrapped
NoWrapping == wrapped = <<>>

\* no receiver of its own, no schema being stitched or validated
NoPlanning ==
  /\ merging = <<>>
  /\ batching = <<>>

NoGateway ==
  /\ receiver = <<>>
  /\ stitching = <<>>
  /\ validation = <<>>
  /\ sorting = <<>>
  /\ NoPlanning

\* no delegation context, no transformer
NoDelegation ==
  /\ delegationContext = [info |-> FALSE, stitchingInfo |-> FALSE,
                          transforms |-> <<>>, hasTransforms |-> FALSE, args |-> FALSE]
  /\ implemented = <<>>
  /\ transformers = <<>>
  /\ contexts = <<>>
  /\ hooks = <<>>

\* the parent P: the first object of the heap, delegated from subschema A
Parent == 1

SourceSubschema == "A"

ParentData == [NoData EXCEPT !["id"] = Leaf(<<"A", "id">>)]

ParentHeap ==
  annotateExternalObject(AllocPlain(EmptyHeap, ParentData), 1, <<>>, SourceSubschema)

\* the fields a resolver may be asked for on P, as field nodes
InfoPool ==
  {Node("email", ""), Node("nick", ""), Node("score", ""), Node("score", "s"),
   Node("bonus", "")}

Pending == [kind |-> "pending", id |-> 0, e |-> ""]

NoEntry == [st |-> "none", id |-> 0]

\* stitchingInfo.selectionSetsByType[T]: the key selection sets of the
\* subschemas, together
selectionSetsByType(c) == SeqCat([i \in DOMAIN Subschemas |-> c.sel[Subschemas[i]]])

\* stitchingInfo.selectionSetsByField[T][fieldName]
selectionSetsByField(c, fieldName) ==
  SeqCat([i \in DOMAIN Subschemas |-> FieldSelectionSet(c, Subschemas[i], fieldName)])

\* addSelectionSetToMap: the nodes of the selection set whose field the
\* source subschema's type does not have are added to the map, keyed by
\* their printed form (the map keeps insertion order)
RECURSIVE addSelectionSetToMap(_, _)
addSelectionSetToMap(map, selectionSet) ==
  IF selectionSet = <<>> THEN map
  ELSE LET fieldNode == Head(selectionSet)
           map1 == IF fieldNode.name \notin TypeFields(SourceSubschema)
                      /\ ~Includes(map, fieldNode)
                   THEN Append(map, fieldNode) ELSE map
       IN addSelectionSetToMap(map1, Tail(selectionSet))

RECURSIVE AddFieldSelectionSets(_, _, _)
AddFieldSelectionSets(map, c, infos) ==
  IF infos = <<>> THEN map
  ELSE AddFieldSelectionSets(
         addSelectionSetToMap(map, selectionSetsByField(c, Head(infos).name)),
         c, Tail(infos))

\* the field nodes handed to the planner for a batch of infos
BatchFieldNodes(c, infos) ==
  infos \o AddFieldSelectionSets(addSelectionSetToMap(<<>>, selectionSetsByType(c)),
                                 c, infos)

(***************************************************************************)
(* One planner round: getMergedParentsFromFieldNodes (V1) and              *)
(* getMergedParents (V2) up to their return.  A merged-type resolver       *)
(* either returns a promise ("async"), returns null synchronously          *)
(* ("null") or throws ("throw").  A resolver that returns an object or an  *)
(* error synchronously behaves as a promise already settled, because       *)
(* Promise.all orders the results by position.                             *)
(***************************************************************************)
Modes == {"async", "null", "throw"}

\* resultMap.set(maybePromise, selectionSet): a promise is a key of its own
\* (the index of its resolver), null is one key however often it is set
MapSet(resultMap, key, s, selectionSet) ==
  IF \E i \in DOMAIN resultMap : resultMap[i].key = key
  THEN [i \in DOMAIN resultMap |->
          IF resultMap[i].key = key
          THEN [resultMap[i] EXCEPT !.s = s, !.selectionSet = selectionSet]
          ELSE resultMap[i]]
  ELSE Append(resultMap,
              [key |-> key, s |-> s, selectionSet |-> selectionSet,
               result |-> IF key = 0 THEN SrcNull ELSE Pending])

\* delegationMap.forEach at lines 137-144: resolvers are invoked in map
\* order until one throws.  Returns [resultMap, invoked, threw].
RECURSIVE InvokeResolvers(_, _, _, _)
InvokeResolvers(delegationMap, modes, i, acc) ==
  IF i > Len(delegationMap) THEN acc
  ELSE LET d == delegationMap[i]
           mode == IF i \in DOMAIN modes THEN modes[i] ELSE "async"
           called == [acc EXCEPT !.invoked = Append(@, d.s)]
       IN IF mode = "throw" THEN [called EXCEPT !.threw = TRUE]
          ELSE InvokeResolvers(delegationMap, modes, i + 1,
                 [called EXCEPT !.resultMap =
                    MapSet(@, IF mode = "null" THEN 0 ELSE i, d.s, d.selections)])

\* the round of a planner call on (object, fieldNodes, sources, targets)
PlanRound(c, object, fieldNodes, sources, targets, modes) ==
  LET sorted == IF fieldNodes = <<>>
                THEN [proxiableSubschemas |-> <<>>, nonProxiableSubschemas |-> <<>>]
                ELSE sortSubschemasByProxiability(c, sources, targets, fieldNodes)
      plan == IF fieldNodes = <<>> THEN EmptyPlan
              ELSE buildDelegationPlan(fieldNodes, sorted.proxiableSubschemas)
      inv == InvokeResolvers(plan.delegationMap, modes, 1,
                             [resultMap |-> <<>>, invoked |-> <<>>, threw |-> FALSE])
  IN [object |-> object, fieldNodes |-> fieldNodes, sources |-> sources,
      targets |-> targets,
      proxiableSubschemas |-> sorted.proxiableSubschemas,
      nonProxiableSubschemas |-> sorted.nonProxiableSubschemas,
      delegationMap |-> plan.delegationMap,
      proxiableFieldNodes |-> plan.proxiableFieldNodes,
      unproxiableFieldNodes |-> plan.unproxiableFieldNodes,
      resultMap |-> inv.resultMap, invoked |-> inv.invoked, threw |-> inv.threw,
      merged |-> 0, mergeThrew |-> FALSE]

NodeKeys(fieldNodes) == {ResponseKey(fieldNodes[i]) : i \in DOMAIN fieldNodes}

\* mergedParentMap as the round's call leaves it.  V1 resolves the
\* unproxiable keys of a round without delegation to the round's object;
\* V2 returns the object itself there, so that what is read under a key is
\* the object's own value of that key ("val").
EntriesAfter(v, e, round) ==
  [k \in RKeys |->
     IF round.threw THEN
       IF k \in NodeKeys(round.fieldNodes) THEN [st |-> "rejected", id |-> 0] ELSE e[k]
     ELSE IF round.delegationMap = <<>> THEN
       IF v = "V1" /\ k \in NodeKeys(round.unproxiableFieldNodes)
       THEN [st |-> "obj", id |-> round.object]
       ELSE IF v = "V2" /\ k \in NodeKeys(round.fieldNodes)
       THEN [st |-> "val", id |-> round.object]
       ELSE e[k]
     ELSE IF k \in NodeKeys(round.unproxiableFieldNodes) \cup NodeKeys(round.proxiableFieldNodes)
       THEN [st |-> "pending", id |-> 0]
       ELSE e[k]]

\* the log of resolver(object, context, info, s, selectionSet) calls
LogOf(round, r) ==
  [i \in DOMAIN round.invoked |-> [round |-> r, s |-> round.invoked[i],
                                   object |-> round.object]]

(***************************************************************************)
(* The default merged resolver and the per-parent loader.                  *)
(***************************************************************************)
\* the paths patches arrive for: the parent's own, and its field addr
PathKeys == {"p", "p.addr"}

\* the receiver: its externalValues by path key (0: none), numRequests, the
\* payloads it has taken from the stream, and whether the stream has ended
NoRecv == [exists |-> FALSE, externalValues |-> [k \in PathKeys |-> 0],
           numRequests |-> 0, consumed |-> 0, done |-> FALSE]

\* receiver.request(info) for a field of the parent: the external value
\* kept for the path has no key named like the root field, so nothing is
\* answered from it; the request subscribes to the path, counts itself
\* and, iterating being false, starts _iterate
request(rc) == [rc EXCEPT !.numRequests = @ + 1]

\* getReceiver(object, subschema): the stream's receiver, which only the
\* object delegated from the streaming subschema carries
hasReceiver(rc, id) == rc.exists /\ id = Parent

\* resolveExternalValue on a defined value; resolveField and the resolver
\* itself on an undefined one
ReadField(h, rc, id, responseKey) ==
  LET o == h.objs[id]
      data == o.data[responseKey]
  IN CASE data.t = "undef" -> IF hasReceiver(rc, id) THEN "receiver" ELSE "undefined"
       [] data.t = "err" -> "error"
       [] data.t = "null" -> IF o.errors # <<>> THEN "error" ELSE "null"
       [] OTHER -> "value"

\* what defaultMergedResolver does with an info on the parent before it
\* reaches the loader: "load" when it goes on to loader.load(info)
Route(h, rc, fieldNode) ==
  IF h.objs[Parent].data[ResponseKey(fieldNode)] # Undef
  THEN ReadField(h, rc, Parent, ResponseKey(fieldNode))
  ELSE IF fieldNode.name \in TypeFields(SourceSubschema)
  THEN IF hasReceiver(rc, Parent) THEN "receiver" ELSE "undefined"
  ELSE "load"

Loaded(infos) == SelectSeq(infos, LAMBDA i : i.loaded)

LoadedNodes(infos) == [i \in DOMAIN Loaded(infos) |-> Loaded(infos)[i].node]

\* every load of the batch settles the same way
SettleBatch(infos, res) ==
  [i \in DOMAIN infos |-> IF infos[i].loaded THEN [infos[i] EXCEPT !.res = res]
                          ELSE infos[i]]

\* defaultMergedResolver(parent, args, context, info) in the current tick
Resolve(fieldNode) ==
  /\ pc = "tick"
  /\ Len(infoResult) < MaxInfos
  /\ \A i \in DOMAIN infoResult : infoResult[i].node # fieldNode
  /\ LET route == Route(heap, recv, fieldNode)
     IN infoResult' = Append(infoResult,
          [node |-> fieldNode, loaded |-> route = "load",
           res |-> IF route = "load" THEN "pending" ELSE route])
  /\ batch' = IF Route(heap, recv, fieldNode) = "load" THEN Append(batch, fieldNode)
              ELSE batch
  /\ recv' = IF Route(heap, recv, fieldNode) = "receiver" THEN request(recv) ELSE recv
  /\ UNCHANGED <<version, cfg, heap, pc, rounds, entry, log, mergeCalls>>
  /\ UNCHANGED heapOps

\* whether the batch function throws before it returns its promises:
\* selectionSetsByField has no entry for the type, a resolver of the first
\* round throws, or (V2) the first round has nothing to delegate and the
\* parent itself is read as the map of merged parents
BatchThrows(v, c, round) ==
  \/ ~c.byField
  \/ round.threw
  \/ v = "V2" /\ round.delegationMap = <<>>

\* the delegation map of a planner call, before any resolver is invoked
DelegationMapOf(c, fieldNodes, sources, targets) ==
  IF fieldNodes = <<>> THEN <<>>
  ELSE buildDelegationPlan(fieldNodes,
         sortSubschemasByProxiability(c, sources, targets, fieldNodes).proxiableSubschemas
       ).delegationMap

\* the loader's batch function at the end of the tick:
\* getMergedParentsFromInfos (V1), getFields (V2)
Dispatch ==
  /\ pc = "tick"
  /\ batch # <<>>
  /\ pc' = "planning"
  /\ UNCHANGED <<version, cfg, heap, batch, mergeCalls, recv>>
  /\ UNCHANGED heapOps
  /\ IF ~cfg.byField
     THEN /\ UNCHANGED <<rounds, entry, log>>
          /\ infoResult' = SettleBatch(infoResult, "error")
     ELSE \E modes \in [1..Len(DelegationMapOf(cfg, BatchFieldNodes(cfg, batch),
                                <<SourceSubschema>>,
                                targetSubschemasOf(SourceSubschema))) -> Modes] :
            LET round == PlanRound(cfg, Parent, BatchFieldNodes(cfg, batch),
                                   <<SourceSubschema>>,
                                   targetSubschemasOf(SourceSubschema), modes)
            IN /\ rounds' = <<round>>
               /\ log' = log \o LogOf(round, 1)
               /\ entry' = EntriesAfter(version, entry, round)
               /\ infoResult' = IF BatchThrows(version, cfg, round)
                                THEN SettleBatch(infoResult, "error")
                                ELSE infoResult

\* a resolver's promise has its merged parent and its continuation has not
\* run yet: continuations run before the next sub-request settles
Draining ==
  \E i \in DOMAIN infoResult :
    /\ infoResult[i].res = "pending"
    /\ entry[ResponseKey(infoResult[i].node)].st # "pending"

LastRound == rounds[Len(rounds)]

\* the external object a subschema returns for a selection set
SubResult(s, selectionSet) ==
  [k \in RKeys |->
     IF \E i \in DOMAIN selectionSet : ResponseKey(selectionSet[i]) = k
     THEN Leaf(<<s, (CHOOSE n \in SeqToSet(selectionSet) : ResponseKey(n) = k).name>>)
     ELSE Undef]

Outcomes == {"ok", "err", "null"}

\* the promise of the i-th entry of resultMap settles; a rejection becomes
\* the value of the promise (then(undefined, error => error))
Settle(i, outcome) ==
  /\ pc = "planning"
  /\ ~Draining
  /\ rounds # <<>>
  /\ ~LastRound.threw
  /\ i \in DOMAIN LastRound.resultMap
  /\ LastRound.resultMap[i].result = Pending
  /\ LET e == LastRound.resultMap[i]
         id == Len(heap.objs) + 1
     IN /\ heap' = IF outcome = "ok"
                   THEN annotateExternalObject(
                          AllocPlain(heap, SubResult(e.s, e.selectionSet)), id, <<>>, e.s)
                   ELSE heap
        /\ rounds' = [rounds EXCEPT ![Len(rounds)].resultMap[i].result =
                        CASE outcome = "ok" -> SrcObj(id)
                          [] outcome = "err" -> SrcErr(e.s)
                          [] OTHER -> SrcNull]
  /\ UNCHANGED <<version, cfg, pc, batch, infoResult, entry, log, mergeCalls, recv>>
  /\ UNCHANGED heapOps

AllSettled(round) ==
  \A i \in DOMAIN round.resultMap : round.resultMap[i].result # Pending

\* the entries that wait for the round's promise, once it has settled
EntriesMerged(e, round, st, id) ==
  [k \in RKeys |->
     IF k \in NodeKeys(round.proxiableFieldNodes) \ NodeKeys(round.unproxiableFieldNodes)
     THEN [st |-> st, id |-> id]
     ELSE IF st = "rejected" /\ k \in NodeKeys(round.unproxiableFieldNodes)
     THEN [st |-> st, id |-> id]
     ELSE e[k]]

\* Promise.all(resultMap.keys()).then(results => mergeExternalObjects(...))
Merge ==
  /\ pc = "planning"
  /\ ~Draining
  /\ rounds # <<>>
  /\ LastRound.delegationMap # <<>>
  /\ ~LastRound.threw
  /\ LastRound.merged = 0
  /\ ~LastRound.mergeThrew
  /\ AllSettled(LastRound)
  /\ LET rm == LastRound.resultMap
         m == mergeExternalObjects(heap, LastRound.object,
                [i \in DOMAIN rm |-> rm[i].result],
                [i \in DOMAIN rm |-> rm[i].selectionSet])
     IN /\ heap' = [objs |-> m.objs, maps |-> m.maps]
        /\ rounds' = [rounds EXCEPT ![Len(rounds)].merged = m.result,
                                    ![Len(rounds)].mergeThrew = m.threw]
        /\ entry' = EntriesMerged(entry, LastRound,
                                  IF m.threw THEN "rejected" ELSE "obj", m.result)
        /\ mergeCalls' = Append(mergeCalls,
                                [caller |-> "planner", target |-> LastRound.object])
  /\ UNCHANGED <<version, cfg, pc, batch, infoResult, log, recv>>
  /\ UNCHANGED heapOps

\* a recursion that plans from the object of the round that ends
NextObject_original(round) == round.object

\* the object the recursive call plans from: the promise's mergedParent
NextObject(round) == round.merged

\* a recursion that hands on every field node of the round
NextFieldNodes_all(round) == round.fieldNodes

\* the field nodes the recursive call receives
NextFieldNodes(round) == round.unproxiableFieldNodes

\* the target subschemas the recursive call receives
NextTargets(round) == round.nonProxiableSubschemas

\* promise.then(mergedParent => getMergedParentsFromFieldNodes(...)): the
\* recursive call on the merged parent
NextRound ==
  /\ pc = "planning"
  /\ ~Draining
  /\ rounds # <<>>
  /\ LastRound.merged # 0
  /\ UNCHANGED <<version, cfg, heap, pc, batch, infoResult, mergeCalls, recv>>
  /\ UNCHANGED heapOps
  /\ LET fieldNodes == NextFieldNodes(LastRound)
         sources == combineSubschemas(LastRound.sources, LastRound.proxiableSubschemas)
         targets == NextTargets(LastRound)
     IN \E modes \in [1..Len(DelegationMapOf(cfg, fieldNodes, sources, targets)) -> Modes] :
          LET round == PlanRound(cfg, NextObject(LastRound), fieldNodes, sources,
                                 targets, modes)
          IN /\ rounds' = Append(rounds, round)
             /\ log' = log \o LogOf(round, Len(rounds) + 1)
             /\ entry' = EntriesAfter(version, entry, round)

\* what the resolver's promise settles to once its merged parent is there:
\* resolveField(mergedParent, responseKey, context, info)
FieldOutcome(h, rc, e) ==
  CASE e.st = "obj" -> ReadField(h, rc, e.id, e.key)
    [] OTHER -> "error"

ResolveField(i) ==
  /\ pc = "planning"
  /\ i \in DOMAIN infoResult
  /\ infoResult[i].res = "pending"
  /\ entry[ResponseKey(infoResult[i].node)].st # "pending"
  /\ \A j \in 1..(i - 1) :
       infoResult[j].res = "pending" => entry[ResponseKey(infoResult[j].node)].st = "pending"
  /\ LET outcome == FieldOutcome(heap, recv,
                       [st |-> entry[ResponseKey(infoResult[i].node)].st,
                        id |-> entry[ResponseKey(infoResult[i].node)].id,
                        key |-> ResponseKey(infoResult[i].node)])
     IN /\ infoResult' = [infoResult EXCEPT ![i].res = outcome]
        /\ recv' = IF outcome = "receiver" THEN request(recv) ELSE recv
  /\ UNCHANGED <<version, cfg, heap, pc, batch, rounds, entry, log, mergeCalls>>
  /\ UNCHANGED heapOps

NoExt == [annotated |-> {}, merged |-> {}]

\* the external parents of the same subschema that fields are resolved on
\* when loaders are looked at
Parents == {1, 2}

NoLoaders == [k \in Parents |-> [parent |-> 0, queue |-> <<>>]]

\* mergedTypeInfo.targetSubschemas.get(A), in the order of the configuration
FirstOrder == targetSubschemasOf(SourceSubschema)

\* the subschemas a first round on the parent can delegate to
FirstTargets == {"B", "C"}

NoBehaviour == [s \in FirstTargets |-> "ok"]

\* data, origin subschema and field-subschema map of an object
View(h, id) ==
  [data |-> h.objs[id].data, origin |-> h.objs[id].origin,
   map |-> IF h.objs[id].fsm = 0 THEN NoMap ELSE h.maps[h.objs[id].fsm]]

NoOp == [op |-> "none", target |-> 0, sources |-> <<>>, result |-> 0,
         threw |-> FALSE, before |-> [data |-> NoData, origin |-> None, map |-> NoMap]]

Init ==
  /\ version \in {"V1", "V2"}
  /\ cfg \in Configs
  /\ heap = ParentHeap
  /\ pc = "tick"
  /\ batch = <<>>
  /\ infoResult = <<>>
  /\ rounds = <<>>
  /\ entry = [k \in RKeys |-> NoEntry]
  /\ log = <<>>
  /\ mergeCalls = <<>>
  /\ recv = NoRecv
  /\ ext = NoExt
  /\ last = NoOp
  /\ behaviour = NoBehaviour
  /\ runs = <<>>
  /\ loaders = NoLoaders
  /\ loads = <<>>
  /\ calls = <<>>
  /\ tick = 1
  /\ resolved = <<>>
  /\ NoDelegation
  /\ NoFiltering
  /\ NoWrapping
  /\ NoGateway

Next ==
  \/ \E fieldNode \in InfoPool : Resolve(fieldNode)
  \/ Dispatch
  \/ \E i \in 1..3, outcome \in Outcomes : Settle(i, outcome)
  \/ Merge
  \/ NextRound
  \/ \E i \in 1..MaxInfos : ResolveField(i)

Spec == Init /\ [][Next]_vars

(***************************************************************************)
(* The parent was delegated with a stream: it has a Receiver, whose        *)
(* _iterate takes the patches of the stream while fields of the parent are *)
(* resolved and planned.                                                   *)
(***************************************************************************)
\* the data of the patch for a path: the parent's name, or the address's zip
PatchData(pathKey) ==
  IF pathKey = "p" THEN [NoData EXCEPT !["name"] = Leaf(<<"A", "name">>)]
  ELSE [NoData EXCEPT !["zip"] = Leaf(<<"A", "zip">>)]

\* pubsub.publish(pathKey, newExternalValue) as _reduce sees it: a request
\* waiting on the parent's path whose key the value has is answered
Published(infos, h, rc, pathKey, id) ==
  [i \in DOMAIN infos |->
     IF /\ infos[i].res = "receiver"
        /\ pathKey = "p"
        /\ h.objs[id].data[ResponseKey(infos[i].node)] # Undef
     THEN [infos[i] EXCEPT !.res = ReadField(h, rc, id, ResponseKey(infos[i].node))]
     ELSE infos[i]]

\* one turn of the loop of _iterate: a payload is taken from the stream.
\* One with a label and a path under the root field becomes a new external
\* value, which is published and then kept for its path, merged by
\* mergeExternalObjects when the path has a value already.
IteratePatch(pathKey, labelled) ==
  /\ recv.exists
  /\ recv.numRequests > 0
  /\ ~recv.done
  /\ recv.consumed < MaxPatches
  /\ LET id == Len(heap.objs) + 1
         h1 == annotateExternalObject(AllocPlain(heap, PatchData(pathKey)), id, <<>>,
                                      SourceSubschema)
         m == mergeExternalObjects(h1, id, <<SrcObj(id)>>, <<Sel(<<"name">>)>>)
         known == recv.externalValues[pathKey] # 0
     IN IF ~labelled
        THEN /\ recv' = [recv EXCEPT !.consumed = @ + 1]
             /\ UNCHANGED <<heap, infoResult, mergeCalls>>
        ELSE /\ infoResult' = Published(infoResult, h1, recv, pathKey, id)
             /\ heap' = IF known THEN [objs |-> m.objs, maps |-> m.maps] ELSE h1
             /\ recv' = [recv EXCEPT !.consumed = @ + 1,
                                     !.externalValues[pathKey] =
                                        IF known THEN m.result ELSE id]
             /\ mergeCalls' = IF known
                              THEN Append(mergeCalls, [caller |-> "receiver", target |-> id])
                              ELSE mergeCalls
  /\ UNCHANGED <<version, cfg, pc, batch, rounds, entry, log>>
  /\ UNCHANGED heapOps

\* the stream ends: payload.done, and the loop of _iterate with it
EndStream ==
  /\ recv.exists
  /\ recv.numRequests > 0
  /\ ~recv.done
  /\ recv' = [recv EXCEPT !.done = TRUE]
  /\ UNCHANGED <<version, cfg, heap, pc, batch, infoResult, rounds, entry, log, mergeCalls>>
  /\ UNCHANGED heapOps

\* the fields resolved on the parent: name is served by the parent's own
\* subschema, which has not sent it yet
RecvPool == {Node("name", ""), Node("email", "")}

InitRecv ==
  /\ version \in {"V1", "V2"}
  /\ cfg \in {c \in Configs : /\ c.byField
                               /\ c.sel["C"] = Sel(<<"email">>)
                               /\ c.sel["D"] = Sel(<<"score">>)
                               /\ ~c.fsel["B"].defined}
  /\ heap = ParentHeap
  /\ pc = "tick"
  /\ batch = <<>>
  /\ infoResult = <<>>
  /\ rounds = <<>>
  /\ entry = [k \in RKeys |-> NoEntry]
  /\ log = <<>>
  /\ mergeCalls = <<>>
  /\ recv = [NoRecv EXCEPT !.exists = TRUE]
  /\ ext = NoExt
  /\ last = NoOp
  /\ behaviour = NoBehaviour
  /\ runs = <<>>
  /\ loaders = NoLoaders
  /\ loads = <<>>
  /\ calls = <<>>
  /\ tick = 1
  /\ resolved = <<>>
  /\ NoDelegation
  /\ NoFiltering
  /\ NoWrapping
  /\ NoGateway

NextRecv ==
  \/ \E fieldNode \in RecvPool : Resolve(fieldNode)
  \/ Dispatch
  \/ \E i \in 1..3, outcome \in Outcomes : Settle(i, outcome)
  \/ Merge
  \/ NextRound
  \/ \E i \in 1..MaxInfos : ResolveField(i)
  \/ \E pathKey \in PathKeys, labelled \in BOOLEAN : IteratePatch(pathKey, labelled)
  \/ EndStream

SpecRecv == InitRecv /\ [][NextRecv]_vars

(***************************************************************************)
(* annotateExternalObject and mergeExternalObjects on their own, applied   *)
(* in any order to objects as subschemas return them.                      *)
(***************************************************************************)
planner == <<version, cfg, pc, batch, infoResult, rounds, entry, log, mergeCalls, recv,
             behaviour, runs, loading, delegation>>

\* the data of the objects that are created
ObjectData ==
  {ParentData,
   SubResult("B", Sel(<<"email">>)),
   SubResult("C", Sel(<<"nick", "score">>))}

\* a result object arrives that no operation has touched
NewObject(data) ==
  /\ Len(heap.objs) < MaxObjects
  /\ heap' = AllocPlain(heap, data)
  /\ last' = [NoOp EXCEPT !.op = "new", !.result = Len(heap.objs) + 1]
  /\ UNCHANGED <<ext, planner>>

\* the subschema that returned an object with this data
OriginOf(data) ==
  IF data = ParentData THEN SourceSubschema
  ELSE data[CHOOSE k \in RKeys : data[k] # Undef /\ data[k].t = "leaf"].v[1]

\* annotateExternalObject(object, errors, subschema) on such an object
Annotate(id, errors, subschema) ==
  /\ id \in DOMAIN heap.objs
  /\ id \notin ext.annotated \cup ext.merged
  /\ heap.objs[id].fsm = 0
  /\ subschema = OriginOf(heap.objs[id].data)
  /\ heap' = annotateExternalObject(heap, id, errors, subschema)
  /\ ext' = [ext EXCEPT !.annotated = @ \cup {id}]
  /\ last' = [NoOp EXCEPT !.op = "annotate", !.target = id, !.result = id,
                          !.before = View(heap, id)]
  /\ UNCHANGED planner

\* the sources a merge is given, each with its selection set
SourcesOf(h) ==
  {[source |-> SrcObj(id), selectionSet |-> <<>>] : id \in DOMAIN h.objs}
    \cup {[source |-> SrcErr("B"), selectionSet |-> Sel(<<"nick">>)],
          [source |-> SrcNull, selectionSet |-> Sel(<<"email">>)]}

SeqsUpTo(S, n) == UNION {[1..k -> S] : k \in 0..n}

\* mergeExternalObjects(schema, path, typeName, target, sources, selectionSets)
MergeObjects(target, given) ==
  /\ target \in DOMAIN heap.objs
  /\ given # <<>> => Len(heap.objs) < MaxObjects
  /\ LET m == mergeExternalObjects(heap, target,
                 [i \in DOMAIN given |-> given[i].source],
                 [i \in DOMAIN given |-> given[i].selectionSet])
     IN /\ heap' = [objs |-> m.objs, maps |-> m.maps]
        /\ ext' = IF m.threw THEN ext ELSE [ext EXCEPT !.merged = @ \cup {m.result}]
        /\ last' = [op |-> "merge", target |-> target,
                    sources |-> [i \in DOMAIN given |-> given[i].source],
                    result |-> m.result, threw |-> m.threw,
                    before |-> View(heap, target)]
  /\ UNCHANGED planner

InitMerge ==
  /\ version = "V1"
  /\ cfg = CHOOSE c \in Configs : TRUE
  /\ heap = EmptyHeap
  /\ pc = "heap"
  /\ batch = <<>>
  /\ infoResult = <<>>
  /\ rounds = <<>>
  /\ entry = [k \in RKeys |-> NoEntry]
  /\ log = <<>>
  /\ mergeCalls = <<>>
  /\ recv = NoRecv
  /\ ext = NoExt
  /\ last = NoOp
  /\ behaviour = NoBehaviour
  /\ runs = <<>>
  /\ loaders = NoLoaders
  /\ loads = <<>>
  /\ calls = <<>>
  /\ tick = 1
  /\ resolved = <<>>
  /\ NoDelegation
  /\ NoFiltering
  /\ NoWrapping
  /\ NoGateway

NextMerge ==
  \/ \E data \in ObjectData : NewObject(data)
  \/ \E id \in 1..MaxObjects, errors \in {<<>>, <<"e">>}, subschema \in SubschemaSet :
       Annotate(id, errors, subschema)
  \/ \E target \in 1..MaxObjects :
       \E given \in SeqsUpTo(SourcesOf(heap), MaxSources) : MergeObjects(target, given)

SpecMerge == InitMerge /\ [][NextMerge]_vars

(***************************************************************************)
(* One planner round on the parent for a fixed batch and fixed answers of  *)
(* the subschemas, run with the target subschemas in different orders and  *)
(* the sub-requests completing in different orders.                        *)
(***************************************************************************)
\* "ok": a promise of an object; "err": a promise that rejects; "null": a
\* promise of null; "syncnull": null, returned without a promise
Behaviours == {"ok", "err", "null", "syncnull"}

Perms(n) == {p \in [1..n -> 1..n] : \A i, j \in 1..n : p[i] = p[j] => i = j}

Permute(q, p) == [i \in DOMAIN q |-> q[p[i]]]

\* the promises of resultMap settle in the order idxs; an object that
\* arrives is allocated and annotated then
RECURSIVE SettleIn(_, _, _, _)
SettleIn(h, resultMap, idxs, b) ==
  IF idxs = <<>> THEN [heap |-> h, resultMap |-> resultMap]
  ELSE LET i == Head(idxs)
           e == resultMap[i]
           id == Len(h.objs) + 1
       IN IF e.result # Pending THEN SettleIn(h, resultMap, Tail(idxs), b)
          ELSE IF b[e.s] = "ok"
          THEN SettleIn(annotateExternalObject(
                          AllocPlain(h, SubResult(e.s, e.selectionSet)), id, <<>>, e.s),
                        [resultMap EXCEPT ![i].result = SrcObj(id)], Tail(idxs), b)
          ELSE SettleIn(h, [resultMap EXCEPT ![i].result =
                              IF b[e.s] = "err" THEN SrcErr(e.s) ELSE SrcNull],
                        Tail(idxs), b)

\* the round of the batch with the targets in the given order, merged once
\* its promises have settled, forwards or backwards
Run(infos, targets, backwards) ==
  \E fieldNodes \in {BatchFieldNodes(cfg, infos)} :
    \E dm \in {DelegationMapOf(cfg, fieldNodes, <<SourceSubschema>>, targets)} :
      \E round \in {PlanRound(cfg, Parent, fieldNodes, <<SourceSubschema>>, targets,
                              [i \in DOMAIN dm |->
                                 IF behaviour[dm[i].s] = "syncnull" THEN "null"
                                 ELSE "async"])} :
        \E settled \in {SettleIn(ParentHeap, round.resultMap,
                                 [i \in 1..Len(round.resultMap) |->
                                    IF backwards THEN Len(round.resultMap) + 1 - i ELSE i],
                                 behaviour)} :
          \E m \in {mergeExternalObjects(settled.heap, Parent,
                      [i \in DOMAIN settled.resultMap |-> settled.resultMap[i].result],
                      [i \in DOMAIN settled.resultMap |-> settled.resultMap[i].selectionSet])} :
            runs' = Append(runs,
                      [targets |-> targets, backwards |-> backwards,
                       fieldNodes |-> fieldNodes,
                       delegated |-> {dm[i].s : i \in DOMAIN dm},
                       threw |-> m.threw,
                       view |-> IF m.threw THEN NoOp.before
                                ELSE View([objs |-> m.objs, maps |-> m.maps], m.result)])

\* the batch is planned, delegated and merged as it was resolved
RunBaseline ==
  /\ runs = <<>>
  /\ DelegationMapOf(cfg, BatchFieldNodes(cfg, batch), <<SourceSubschema>>,
                     FirstOrder) # <<>>
  /\ Run(batch, FirstOrder, FALSE)
  /\ UNCHANGED <<version, cfg, heap, pc, batch, infoResult, rounds, entry, log,
                 mergeCalls, recv, ext, last, behaviour, loading, delegation>>

\* the same fields are resolved in another order, with the target
\* subschemas configured in another order and the sub-requests completing
\* in another order
RunPermuted(p, q, backwards) ==
  /\ Len(runs) = 1
  /\ Run(Permute(batch, q), Permute(FirstOrder, p), backwards)
  /\ UNCHANGED <<version, cfg, heap, pc, batch, infoResult, rounds, entry, log,
                 mergeCalls, recv, ext, last, behaviour, loading, delegation>>

\* the batches: one or two different field nodes
Batches ==
  {<<n>> : n \in InfoPool} \cup ({<<n, m>> : n, m \in InfoPool} \ {<<n, n>> : n \in InfoPool})

InitOrder ==
  /\ version = "V1"
  /\ cfg \in {c \in Configs : c.byField /\ c.sel["D"] = Sel(<<"score">>)}
  /\ heap = ParentHeap
  /\ pc = "runs"
  /\ batch \in {b \in Batches : Len(b) <= MaxInfos}
  /\ infoResult = <<>>
  /\ rounds = <<>>
  /\ entry = [k \in RKeys |-> NoEntry]
  /\ log = <<>>
  /\ mergeCalls = <<>>
  /\ recv = NoRecv
  /\ ext = NoExt
  /\ last = NoOp
  /\ behaviour \in [FirstTargets -> Behaviours]
  /\ runs = <<>>
  /\ loaders = NoLoaders
  /\ loads = <<>>
  /\ calls = <<>>
  /\ tick = 1
  /\ resolved = <<>>
  /\ NoDelegation
  /\ NoFiltering
  /\ NoWrapping
  /\ NoGateway

NextOrder ==
  \/ RunBaseline
  \/ \E p \in Perms(Len(FirstOrder)), q \in Perms(Len(batch)), backwards \in BOOLEAN :
       RunPermuted(p, q, backwards)

SpecOrder == InitOrder /\ [][NextOrder]_vars

(***************************************************************************)
(* The loaders: fields resolved on two external parents over some ticks.   *)
(* A loader defers its batch function to the end of the tick and calls it  *)
(* once with every info loaded since.                                      *)
(***************************************************************************)
TwoParents ==
  annotateExternalObject(
    AllocPlain(ParentHeap, [NoData EXCEPT !["id"] = Leaf(<<"A", "id2">>)]),
    2, <<>>, SourceSubschema)

\* a loader that every parent shares
LoaderKey_shared(parent) == Parent

\* loaders.get(parent) / loaders.set(parent, loader): the key of the WeakMap
LoaderKey(parent) == parent

\* the fields resolved on the parents
LoadPool == {Node("id", ""), Node("email", ""), Node("score", "s")}

\* defaultMergedResolver(parent, args, context, info) down to
\* loader.load(info): a field the parent has, or its subschema serves, does
\* not reach the loader (call -1); any other is queued on the parent's
\* loader, which is created for the parent by the first such field
LoadField(parent, fieldNode) ==
  /\ Len(loads) < MaxLoads
  /\ LET k == LoaderKey(parent)
         reaches == /\ heap.objs[parent].data[ResponseKey(fieldNode)] = Undef
                    /\ fieldNode.name \notin TypeFields(SourceSubschema)
     IN /\ loads' = Append(loads, [parent |-> parent, node |-> fieldNode, tick |-> tick,
                                  call |-> IF reaches THEN 0 ELSE -1,
                                  key |-> ResponseKey(fieldNode)])
        /\ loaders' = IF ~reaches THEN loaders
                      ELSE [loaders EXCEPT ![k] =
                              [parent |-> IF @.parent = 0 THEN parent ELSE @.parent,
                               queue |-> Append(@.queue, Len(loads) + 1)]]
  /\ UNCHANGED <<version, cfg, heap, pc, batch, infoResult, rounds, entry, log,
                 mergeCalls, recv, ext, last, behaviour, runs, calls, tick, resolved,
                 delegation>>

\* the loaders with queued infos, in the order of their first queued info
RECURSIVE Dispatching(_, _)
Dispatching(ld, ls) ==
  LET waiting == {k \in Parents : ld[k].queue # <<>>}
  IN IF waiting = {} THEN <<>>
     ELSE LET k == CHOOSE k \in waiting :
                     \A j \in waiting : ld[k].queue[1] <= ld[j].queue[1]
          IN <<k>> \o Dispatching([ld EXCEPT ![k].queue = <<>>], ls)

\* the tick ends: each loader with queued infos calls its batch function
\* getMergedParentsFromInfos(parent, context, infos) / getFields(...) once,
\* with the parent it was created for; the promise a load gets back is the
\* entry of the returned map under its own response key
EndTick ==
  /\ tick < MaxTicks
  /\ tick' = tick + 1
  /\ LET order == Dispatching(loaders, loads)
         made == [i \in DOMAIN order |->
                    [parent |-> loaders[order[i]].parent,
                     infos |-> loaders[order[i]].queue,
                     fieldNodes |-> BatchFieldNodes(cfg,
                        [j \in DOMAIN loaders[order[i]].queue |->
                           loads[loaders[order[i]].queue[j]].node]),
                     tick |-> tick]]
     IN /\ calls' = calls \o made
        /\ loads' = [l \in DOMAIN loads |->
                       IF \E i \in DOMAIN made : Includes(made[i].infos, l)
                       THEN [loads[l] EXCEPT !.call =
                               Len(calls) + (CHOOSE i \in DOMAIN made :
                                               Includes(made[i].infos, l))]
                       ELSE loads[l]]
        /\ loaders' = [k \in Parents |-> [loaders[k] EXCEPT !.queue = <<>>]]
  /\ UNCHANGED <<version, cfg, heap, pc, batch, infoResult, rounds, entry, log,
                 mergeCalls, recv, ext, last, behaviour, runs, resolved, delegation>>

InitLoader ==
  /\ version \in {"V1", "V2"}
  /\ cfg \in {c \in Configs : c.byField /\ c.sel["D"] = Sel(<<"score">>)}
  /\ heap = TwoParents
  /\ pc = "tick"
  /\ batch = <<>>
  /\ infoResult = <<>>
  /\ rounds = <<>>
  /\ entry = [k \in RKeys |-> NoEntry]
  /\ log = <<>>
  /\ mergeCalls = <<>>
  /\ recv = NoRecv
  /\ ext = NoExt
  /\ last = NoOp
  /\ behaviour = NoBehaviour
  /\ runs = <<>>
  /\ loaders = NoLoaders
  /\ loads = <<>>
  /\ calls = <<>>
  /\ tick = 1
  /\ resolved = <<>>
  /\ NoDelegation
  /\ NoFiltering
  /\ NoWrapping
  /\ NoGateway

NextLoader ==
  \/ \E parent \in Parents, fieldNode \in LoadPool : LoadField(parent, fieldNode)
  \/ EndTick

SpecLoader == InitLoader /\ [][NextLoader]_vars

(***************************************************************************)
(* The default merged resolver on any parent: the external parent P, an    *)
(* object that is not an external object (the value of a parent resolver   *)
(* written by hand), and no parent at all.                                 *)
(***************************************************************************)
NullParent == 0

PlainParent == 2

\* the object a hand-written parent resolver returned
PlainData == [NoData EXCEPT !["id"] = Leaf(<<"plain", "id">>)]

WithPlainParent == AllocPlain(ParentHeap, PlainData)

\* a resolver without the test of the parent's own value
RouteOn_withoutOwnValue(v, h, rc, parent, fieldNode) ==
  IF parent = NullParent THEN (IF v = "V2" THEN "null" ELSE "throws")
  ELSE IF ~isExternalObject(h, parent) THEN "default"
  ELSE IF fieldNode.name \in TypeFields(h.objs[parent].origin)
  THEN IF hasReceiver(rc, parent) THEN "receiver" ELSE "undefined"
  ELSE "load"

\* a resolver that asks the receiver whenever there is one
RouteOn_receiverFirst(v, h, rc, parent, fieldNode) ==
  IF parent = NullParent THEN (IF v = "V2" THEN "null" ELSE "throws")
  ELSE IF ~isExternalObject(h, parent) THEN "default"
  ELSE IF h.objs[parent].data[ResponseKey(fieldNode)] # Undef
  THEN ReadField(h, rc, parent, ResponseKey(fieldNode))
  ELSE IF hasReceiver(rc, parent) THEN "receiver"
  ELSE IF fieldNode.name \in TypeFields(h.objs[parent].origin) THEN "undefined"
  ELSE "load"

\* defaultMergedResolver(parent, args, context, info) up to its return:
\* "default" is defaultFieldResolver(parent, args, context, info), "load"
\* is loader.load(info), "receiver" is receiver.request(info).  Without a
\* parent V2 returns null; V1 reads the annotation of undefined and throws.
RouteOn(v, h, rc, parent, fieldNode) ==
  IF parent = NullParent THEN (IF v = "V2" THEN "null" ELSE "throws")
  ELSE IF ~isExternalObject(h, parent) THEN "default"
  ELSE IF h.objs[parent].data[ResponseKey(fieldNode)] # Undef
  THEN ReadField(h, rc, parent, ResponseKey(fieldNode))
  ELSE IF fieldNode.name \in TypeFields(h.objs[parent].origin)
  THEN IF hasReceiver(rc, parent) THEN "receiver" ELSE "undefined"
  ELSE "load"

\* defaultMergedResolver(parent, args, context, info) in the current tick,
\* on any parent
ResolveOn(parent, fieldNode) ==
  /\ pc = "tick"
  /\ Len(resolved) < MaxResolves
  /\ parent \in {NullParent} \cup DOMAIN heap.objs
  /\ parent = Parent => Len(infoResult) < MaxInfos
  /\ \A i \in DOMAIN resolved :
       resolved[i].parent # parent \/ resolved[i].node # fieldNode
  /\ \E route \in {RouteOn(version, heap, recv, parent, fieldNode)} :
       /\ resolved' = Append(resolved,
                             [parent |-> parent, node |-> fieldNode, route |-> route])
       /\ infoResult' = IF parent = Parent
                        THEN Append(infoResult,
                               [node |-> fieldNode, loaded |-> route = "load",
                                res |-> IF route = "load" THEN "pending" ELSE route])
                        ELSE infoResult
       /\ batch' = IF route = "load" THEN Append(batch, fieldNode) ELSE batch
       /\ recv' = IF route = "receiver" THEN request(recv) ELSE recv
  /\ UNCHANGED <<version, cfg, heap, pc, rounds, entry, log, mergeCalls>>
  /\ UNCHANGED <<ext, last, behaviour, runs, loaders, loads, calls, tick, delegation>>

\* the fields resolved: id is a value the parents have, name a field of
\* the parent's subschema it has not sent, email and bonus fields of other
\* subschemas
RoutePool == {Node("id", ""), Node("name", ""), Node("email", ""), Node("bonus", "")}

InitRoute ==
  /\ version \in {"V1", "V2"}
  /\ cfg \in {c \in Configs : /\ c.byField
                               /\ c.sel["C"] = Sel(<<"id">>)
                               /\ c.sel["D"] = Sel(<<"zip">>)
                               /\ ~c.fsel["B"].defined}
  /\ heap = WithPlainParent
  /\ pc = "tick"
  /\ batch = <<>>
  /\ infoResult = <<>>
  /\ rounds = <<>>
  /\ entry = [k \in RKeys |-> NoEntry]
  /\ log = <<>>
  /\ mergeCalls = <<>>
  /\ recv \in {NoRecv, [NoRecv EXCEPT !.exists = TRUE]}
  /\ ext = NoExt
  /\ last = NoOp
  /\ behaviour = NoBehaviour
  /\ runs = <<>>
  /\ loaders = NoLoaders
  /\ loads = <<>>
  /\ calls = <<>>
  /\ tick = 1
  /\ resolved = <<>>
  /\ NoDelegation
  /\ NoFiltering
  /\ NoWrapping
  /\ NoGateway

NextRoute ==
  \/ \E parent \in {NullParent, Parent, PlainParent}, fieldNode \in RoutePool :
       ResolveOn(parent, fieldNode)
  \/ Dispatch
  \/ \E i \in 1..3, outcome \in Outcomes : Settle(i, outcome)
  \/ Merge
  \/ NextRound
  \/ \E i \in 1..MaxInfos : ResolveField(i)

SpecRoute == InitRoute /\ [][NextRoute]_vars

(***************************************************************************)
(* The transformation pipeline of a delegation.  defaultDelegationBinding  *)
(* lists the transforms of a delegation context; a Transformer gives each  *)
(* of them a transformation-context object, folds a request through their  *)
(* transformRequest methods and the result back through their              *)
(* transformResult methods.                                                *)
(***************************************************************************)
MaxDelegations == 2
MaxTransforms == 2

\* every variable of the planner, the receiver, the merge and the loaders
engine == <<version, cfg, heap, pc, batch, infoResult, rounds, entry, log,
            mergeCalls, recv, ext, last, behaviour, runs, loading>>

\* nothing is being resolved
NoEngine ==
  /\ version = "V2"
  /\ cfg \in {c \in Configs : c.byField /\ c.sel["C"] = Sel(<<"id">>)
                              /\ c.sel["D"] = Sel(<<"zip">>) /\ ~c.fsel["B"].defined}
  /\ heap = ParentHeap
  /\ pc = "tick"
  /\ batch = <<>>
  /\ infoResult = <<>>
  /\ rounds = <<>>
  /\ entry = [k \in RKeys |-> NoEntry]
  /\ log = <<>>
  /\ mergeCalls = <<>>
  /\ recv = NoRecv
  /\ ext = NoExt
  /\ last = NoOp
  /\ behaviour = NoBehaviour
  /\ runs = <<>>
  /\ loaders = NoLoaders
  /\ loads = <<>>
  /\ calls = <<>>
  /\ tick = 1
  /\ resolved = <<>>

\* the transforms a delegation context lists: WrapFields defines both
\* methods, the other two stand for a transform with one method only
UserTransforms == {"WrapFields", "requestOnly", "resultOnly"}

\* the built-in transforms whose classes are in other files
OtherBuiltIns == {"ExpandAbstractTypes", "AddSelectionSets", "WrapConcreteTypes", "AddTypename"}

\* the methods each transform defines: FilterToSchema and
\* AddArgumentsAsVariables define transformRequest only; the other built-in
\* transforms define transformRequest and may define transformResult
Implementations ==
  {[t \in UserTransforms \cup OtherBuiltIns \cup {"AddArgumentsAsVariables", "FilterToSchema"} |->
      CASE t = "WrapFields" -> {"transformRequest", "transformResult"}
        [] t = "requestOnly" -> {"transformRequest"}
        [] t = "resultOnly" -> {"transformResult"}
        [] t \in {"AddArgumentsAsVariables", "FilterToSchema"} -> {"transformRequest"}
        [] OTHER -> o] :
     o \in {{"transformRequest"}, {"transformRequest", "transformResult"}}}

\* the transforms that take `_transformationContext` and never touch it
IgnoresContext(transform) == transform \in {"AddArgumentsAsVariables", "FilterToSchema"}

\* FilterToSchema removes fields and selection sets from the request
DropsFields(transform) == transform = "FilterToSchema"

\* the delegation contexts: info and its stitching info (read through
\* info?.schema.extensions), the transforms (a list or none) and args
DelegationContexts ==
  {dc \in [info : BOOLEAN, stitchingInfo : BOOLEAN,
           transforms : UNION {[1..n -> UserTransforms] : n \in 0..MaxTransforms},
           hasTransforms : BOOLEAN, args : BOOLEAN] :
     /\ dc.stitchingInfo => dc.info
     /\ ~dc.hasTransforms => dc.transforms = <<>>}

\* Array.prototype.reverse: the elements in the opposite order
reverse(array) == [i \in DOMAIN array |-> array[Len(array) + 1 - i]]

\* the transforms of a delegation, and the delegation context as the
\* binding leaves it
defaultDelegationBinding_filterThenTypename(dc) ==
  [delegationTransforms |->
       (IF dc.stitchingInfo THEN <<"ExpandAbstractTypes", "AddSelectionSets">>
        ELSE IF dc.info THEN <<"ExpandAbstractTypes">> ELSE <<>>)
       \o <<"WrapConcreteTypes">>
       \o (IF dc.hasTransforms THEN reverse(dc.transforms) ELSE <<>>)
       \o (IF dc.args THEN <<"AddArgumentsAsVariables">> ELSE <<>>)
       \o <<"FilterToSchema", "AddTypename">>,
   delegationContext |-> dc]

defaultDelegationBinding_typenameBeforeArgs(dc) ==
  [delegationTransforms |->
       (IF dc.stitchingInfo THEN <<"ExpandAbstractTypes", "AddSelectionSets">>
        ELSE IF dc.info THEN <<"ExpandAbstractTypes">> ELSE <<>>)
       \o <<"WrapConcreteTypes">>
       \o (IF dc.hasTransforms THEN reverse(dc.transforms) ELSE <<>>)
       \o <<"AddTypename">>
       \o (IF dc.args THEN <<"AddArgumentsAsVariables">> ELSE <<>>)
       \o <<"FilterToSchema">>,
   delegationContext |-> dc]

defaultDelegationBinding_reverseInPlace(dc) ==
  [delegationTransforms |->
       (IF dc.stitchingInfo THEN <<"ExpandAbstractTypes", "AddSelectionSets">>
        ELSE IF dc.info THEN <<"ExpandAbstractTypes">> ELSE <<>>)
       \o <<"WrapConcreteTypes">>
       \o (IF dc.hasTransforms THEN reverse(dc.transforms) ELSE <<>>)
       \o (IF dc.args THEN <<"AddArgumentsAsVariables">> ELSE <<>>)
       \o <<"AddTypename", "FilterToSchema">>,
   delegationContext |-> [dc EXCEPT !.transforms = reverse(@)]]

defaultDelegationBinding(dc) ==
  [delegationTransforms |->
       (IF dc.stitchingInfo THEN <<"ExpandAbstractTypes", "AddSelectionSets">>
        ELSE IF dc.info THEN <<"ExpandAbstractTypes">> ELSE <<>>)
       \o <<"WrapConcreteTypes">>
       \* transforms.slice().reverse(): the copy is reversed
       \o (IF dc.hasTransforms THEN reverse(dc.transforms) ELSE <<>>)
       \o (IF dc.args THEN <<"AddArgumentsAsVariables">> ELSE <<>>)
       \o <<"AddTypename", "FilterToSchema">>,
   delegationContext |-> dc]

\* addTransform(transform, {}): the object literal is a new object for each
\* transform; objects are numbered in order of creation
addTransform_sharedContext(transform, i) ==
  [transform |-> transform, context |-> Len(contexts) + 1]

addTransform(transform, i) ==
  [transform |-> transform, context |-> Len(contexts) + i]

\* reduce visits the transformations from the first, reduceRight from the last
reduce(n) == [i \in 1..n |-> i]

reduceRight_fromTheLeft(n) == [i \in 1..n |-> i]

reduceRight(n) == [i \in 1..n |-> n + 1 - i]

\* The fold of one method over the transformations of transformer d, visited
\* in the given order.  A request is the sequence of the transforms that have
\* rewritten it; a transform's transformResult undoes its own rewriting.
\* transformRequest writes the transform's state into the context object it
\* is handed (WrapFields resets nextIndex and paths first), transformResult
\* reads it.  Each call is recorded with the context object it was handed,
\* what the object held and the value it was called on.
RECURSIVE Fold(_, _, _, _)
Fold(d, method, order, acc) ==
  IF order = <<>> THEN acc
  ELSE LET i == Head(order)
           tn == transformers[d].transformations[i]
       IN IF method \notin implemented[tn.transform]
          THEN Fold(d, method, Tail(order), acc)
          ELSE Fold(d, method, Tail(order),
                 [value |-> IF method = "transformRequest" THEN Append(acc.value, i)
                            ELSE SelectSeq(acc.value, LAMBDA x : x # i),
                  contexts |->
                     IF method = "transformResult" \/ IgnoresContext(tn.transform)
                     THEN acc.contexts
                     ELSE [acc.contexts EXCEPT ![tn.context] =
                             IF tn.transform = "WrapFields" THEN {<<d, i>>}
                             ELSE @ \cup {<<d, i>>}],
                  hooks |-> Append(acc.hooks,
                              [transformer |-> d, method |-> method, index |-> i,
                               transform |-> tn.transform, context |-> tn.context,
                               seen |-> acc.contexts[tn.context],
                               value |-> acc.value])])

\* new Transformer(context): the binding lists the transforms and each is
\* added with a context object of its own
NewTransformer ==
  /\ Len(transformers) < MaxDelegations
  /\ \E binding \in {defaultDelegationBinding(delegationContext)} :
       /\ delegationContext' = binding.delegationContext
       /\ transformers' = Append(transformers,
            [transformations |-> [i \in DOMAIN binding.delegationTransforms |->
                                    addTransform(binding.delegationTransforms[i], i)],
             phase |-> "built", request |-> <<>>, result |-> <<>>])
       /\ contexts' = contexts \o [i \in DOMAIN binding.delegationTransforms |-> {}]
  /\ UNCHANGED <<implemented, hooks, filtering, wrapped, gateway>>
  /\ UNCHANGED engine

\* transformer.transformRequest(originalRequest)
TransformRequest(d) ==
  /\ d \in DOMAIN transformers
  /\ transformers[d].phase = "built"
  /\ \E out \in {Fold(d, "transformRequest", reduce(Len(transformers[d].transformations)),
                      [value |-> <<>>, contexts |-> contexts, hooks |-> hooks])} :
       /\ transformers' = [transformers EXCEPT ![d].phase = "requested",
                                               ![d].request = out.value]
       /\ contexts' = out.contexts
       /\ hooks' = out.hooks
  /\ UNCHANGED <<delegationContext, implemented, filtering, wrapped, gateway>>
  /\ UNCHANGED engine

\* transformer.transformResult(originalResult), on the result of an executor
\* that answers the transformed request as it is
TransformResult(d) ==
  /\ d \in DOMAIN transformers
  /\ transformers[d].phase = "requested"
  /\ \E out \in {Fold(d, "transformResult", reduceRight(Len(transformers[d].transformations)),
                      [value |-> transformers[d].request, contexts |-> contexts,
                       hooks |-> hooks])} :
       /\ transformers' = [transformers EXCEPT ![d].phase = "done",
                                               ![d].result = out.value]
       /\ contexts' = out.contexts
       /\ hooks' = out.hooks
  /\ UNCHANGED <<delegationContext, implemented, filtering, wrapped, gateway>>
  /\ UNCHANGED engine

InitPipeline ==
  /\ NoEngine
  /\ delegationContext \in DelegationContexts
  /\ implemented \in Implementations
  /\ transformers = <<>>
  /\ contexts = <<>>
  /\ hooks = <<>>
  /\ NoFiltering
  /\ NoWrapping
  /\ NoGateway

NextPipeline ==
  \/ NewTransformer
  \/ \E d \in 1..MaxDelegations : TransformRequest(d)
  \/ \E d \in 1..MaxDelegations : TransformResult(d)

SpecPipeline == InitPipeline /\ [][NextPipeline]_vars

(***************************************************************************)
(* FilterToSchema: the request document is filtered against the target     *)
(* schema of the delegation.                                               *)
(***************************************************************************)
MaxSelections == 2
MaxPasses == 2

\* selection nodes: a field, an inline fragment, a fragment spread
FieldSel(name, arguments, selections) ==
  [kind |-> "Field", name |-> name, arguments |-> arguments, selections |-> selections]

Inline(typeCondition, selections) ==
  [kind |-> "InlineFragment", name |-> typeCondition, arguments |-> <<>>,
   selections |-> selections]

Spread(name) ==
  [kind |-> "FragmentSpread", name |-> name, arguments |-> <<>>, selections |-> <<>>]

\* an argument whose value is a variable
Arg(name, variable) == [name |-> name, variable |-> variable]

\* The target schemas.  Everything a request may name exists in the first;
\* the second lacks the type Post, the fields User.email and Query.version
\* and the argument lang of Query.user; the third lacks the type Post only.
GatewayFields ==
  (<<"Query", "user">> :> [type |-> "User", args |-> {"id", "lang"}])
  @@ (<<"Query", "search">> :> [type |-> "SearchResult", args |-> {"term"}])
  @@ (<<"Query", "version">> :> [type |-> "String", args |-> {}])
  @@ (<<"User", "id">> :> [type |-> "ID", args |-> {}])
  @@ (<<"User", "email">> :> [type |-> "String", args |-> {}])
  @@ (<<"Post", "title">> :> [type |-> "String", args |-> {}])

TargetSchemas ==
  { [types |-> ("Query" :> "object") @@ ("User" :> "object") @@ ("Post" :> "object")
               @@ ("SearchResult" :> "union") @@ ("String" :> "scalar") @@ ("ID" :> "scalar"),
     fields |-> GatewayFields,
     members |-> {"User", "Post"}],
    [types |-> ("Query" :> "object") @@ ("User" :> "object")
               @@ ("SearchResult" :> "union") @@ ("String" :> "scalar") @@ ("ID" :> "scalar"),
     fields |-> (<<"Query", "user">> :> [type |-> "User", args |-> {"id"}])
                @@ (<<"Query", "search">> :> [type |-> "SearchResult", args |-> {"term"}])
                @@ (<<"User", "id">> :> [type |-> "ID", args |-> {}]),
     members |-> {"User"}],
    [types |-> ("Query" :> "object") @@ ("User" :> "object")
               @@ ("SearchResult" :> "union") @@ ("String" :> "scalar") @@ ("ID" :> "scalar"),
     fields |-> [f \in DOMAIN GatewayFields \ {<<"Post", "title">>} |-> GatewayFields[f]],
     members |-> {"User"}] }

\* schema.getType(name) exists
hasType(schema, name) == name \in DOMAIN schema.types

\* the kind of a named type, "" for a type that is undefined
KindOf(schema, name) == IF hasType(schema, name) THEN schema.types[name] ELSE ""

\* implementsAbstractType(schema, typeA, typeB) of @graphql-tools/utils:
\* false when either type is missing, true for the same type, and for two
\* composite types whether their possible types overlap
implementsAbstractType(schema, typeA, typeB) ==
  IF ~hasType(schema, typeA) \/ ~hasType(schema, typeB) THEN FALSE
  ELSE IF typeA = typeB THEN TRUE
  ELSE IF schema.types[typeA] = "union" /\ schema.types[typeB] = "object"
  THEN typeB \in schema.members
  ELSE IF schema.types[typeA] = "object" /\ schema.types[typeB] = "union"
  THEN typeA \in schema.members
  ELSE FALSE

\* union(...arrays): the items in order of first appearance
RECURSIVE union(_, _)
union(a, b) ==
  IF b = <<>> THEN a
  ELSE union(IF Includes(a, Head(b)) THEN a ELSE Append(a, Head(b)), Tail(b))

\* usedVariables.splice(usedVariables.indexOf(name), 1) for each name in turn
RECURSIVE spliceEach(_, _)
spliceEach(usedVariables, names) ==
  IF names = <<>> THEN usedVariables
  ELSE IF ~Includes(usedVariables, Head(names)) THEN spliceEach(usedVariables, Tail(names))
  ELSE LET index == CHOOSE i \in DOMAIN usedVariables :
                      /\ usedVariables[i] = Head(names)
                      /\ \A j \in 1..(i - 1) : usedVariables[j] # Head(names)
       IN spliceEach(SubSeq(usedVariables, 1, index - 1)
                       \o SubSeq(usedVariables, index + 1, Len(usedVariables)),
                     Tail(names))

\* the variables of the arguments of a node, in order
VariablesOf(arguments) == [i \in DOMAIN arguments |-> arguments[i].variable]

\* The visit of filterSelectionSet over the selections of a selection set
\* whose parent type is parentType; acc holds the selections kept so far and
\* the usedFragments and usedVariables arrays.
\*  - a field of an object type that the type does not define is removed
\*    on entering, and of its arguments only the declared ones are kept;
\*    under a union the field is not looked up;
\*  - the variables of the kept arguments are pushed, then the selection
\*    set is visited;
\*  - on leaving, a field whose named type is an object type and whose
\*    selections are empty is removed, with one occurrence of each of its
\*    variables;
\*  - an inline fragment whose type condition does not overlap the parent
\*    type is removed; a fragment spread is kept when the fragment is valid
\*    and its type overlaps the parent type, and is then pushed on usedFragments.
\* the leave handler reads the selections of the node as the visit has
\* edited it
emptyOnLeave_original(node, inner) == node.selections = <<>>

emptyOnLeave(node, inner) == inner.selections = <<>>

RECURSIVE visit(_, _, _, _, _)
visit(schema, parentType, validFragments, selections, acc) ==
  IF selections = <<>> THEN acc
  ELSE
    LET node == Head(selections)
        rest == Tail(selections)
    IN
    IF node.kind = "Field" THEN
      IF /\ KindOf(schema, parentType) = "object"
         /\ node.name # "__typename"
         /\ <<parentType, node.name>> \notin DOMAIN schema.fields
      THEN visit(schema, parentType, validFragments, rest, acc)
      ELSE
        LET declared == IF KindOf(schema, parentType) # "object" THEN node.arguments
                        ELSE IF node.name = "__typename" THEN <<>>
                        ELSE SelectSeq(node.arguments,
                               LAMBDA a : a.name \in schema.fields[<<parentType, node.name>>].args)
            type == IF node.name = "__typename" THEN "String"
                    ELSE IF <<parentType, node.name>> \in DOMAIN schema.fields
                    THEN schema.fields[<<parentType, node.name>>].type
                    ELSE ""
            inner == visit(schema, type, validFragments, node.selections,
                       [selections |-> <<>>,
                        usedFragments |-> acc.usedFragments,
                        usedVariables |-> acc.usedVariables \o VariablesOf(declared)])
        IN IF KindOf(schema, type) = "object" /\ emptyOnLeave(node, inner)
           THEN visit(schema, parentType, validFragments, rest,
                  [selections |-> acc.selections,
                   usedFragments |-> inner.usedFragments,
                   usedVariables |-> spliceEach(inner.usedVariables, VariablesOf(declared))])
           ELSE visit(schema, parentType, validFragments, rest,
                  [selections |-> Append(acc.selections,
                                    FieldSel(node.name, declared, inner.selections)),
                   usedFragments |-> inner.usedFragments,
                   usedVariables |-> inner.usedVariables])
    ELSE IF node.kind = "InlineFragment" THEN
      IF node.name # "" /\ ~implementsAbstractType(schema, parentType, node.name)
      THEN visit(schema, parentType, validFragments, rest, acc)
      ELSE
        LET inner == visit(schema, IF node.name # "" THEN node.name ELSE parentType,
                       validFragments, node.selections,
                       [selections |-> <<>>,
                        usedFragments |-> acc.usedFragments,
                        usedVariables |-> acc.usedVariables])
        IN visit(schema, parentType, validFragments, rest,
             [selections |-> Append(acc.selections, Inline(node.name, inner.selections)),
              usedFragments |-> inner.usedFragments,
              usedVariables |-> inner.usedVariables])
    ELSE
      IF /\ node.name \in DOMAIN validFragments
         /\ implementsAbstractType(schema, parentType, validFragments[node.name])
      THEN visit(schema, parentType, validFragments, rest,
             [selections |-> Append(acc.selections, node),
              usedFragments |-> Append(acc.usedFragments, node.name),
              usedVariables |-> acc.usedVariables])
      ELSE visit(schema, parentType, validFragments, rest, acc)

\* filterSelectionSet(schema, type, validFragments, selectionSet)
filterSelectionSet(schema, type, validFragments, selections) ==
  visit(schema, type, validFragments, selections,
        [selections |-> <<>>, usedFragments |-> <<>>, usedVariables |-> <<>>])

\* collectFragmentVariables: the used fragments are taken from the end of
\* remainingFragments; each is filtered against its own type, the fragments
\* it spreads are added to the remaining ones, and it is emitted once
RECURSIVE collectFragmentVariables(_, _, _, _)
collectFragmentVariables(schema, validFragments, validFragmentsWithType, st) ==
  IF st.remainingFragments = <<>> THEN st
  ELSE
    LET nextFragmentName == st.remainingFragments[Len(st.remainingFragments)]
        popped == SubSeq(st.remainingFragments, 1, Len(st.remainingFragments) - 1)
        found == SelectSeq(validFragments, LAMBDA fr : fr.name = nextFragmentName)
    IN IF found = <<>>
       THEN collectFragmentVariables(schema, validFragments, validFragmentsWithType,
              [st EXCEPT !.remainingFragments = popped])
       ELSE
         LET out == filterSelectionSet(schema, found[1].typeCondition,
                                       validFragmentsWithType, found[1].selections)
         IN collectFragmentVariables(schema, validFragments, validFragmentsWithType,
              [remainingFragments |-> union(popped, out.usedFragments),
               usedVariables |-> union(st.usedVariables, out.usedVariables),
               newFragments |->
                  IF nextFragmentName \in st.fragmentSet THEN st.newFragments
                  ELSE Append(st.newFragments,
                         [name |-> nextFragmentName,
                          typeCondition |-> found[1].typeCondition,
                          selections |-> out.selections]),
               fragmentSet |-> st.fragmentSet \cup {nextFragmentName}])

\* filterToSchema(targetSchema, document, variables) for a document with one
\* query operation: the operation filtered against the query type, its
\* variable definitions and the variable values reduced to the used ones,
\* and the used valid fragments
filterToSchema(schema, doc) ==
  LET validFragments == SelectSeq(doc.fragments,
                                  LAMBDA fr : hasType(schema, fr.typeCondition))
      typed == [name \in {validFragments[i].name : i \in DOMAIN validFragments} |->
                  validFragments[CHOOSE i \in DOMAIN validFragments :
                                   /\ validFragments[i].name = name
                                   /\ \A j \in DOMAIN validFragments :
                                        validFragments[j].name = name => j <= i].typeCondition]
      op == filterSelectionSet(schema, "Query", typed, doc.selections)
      collected == collectFragmentVariables(schema, validFragments, typed,
                     [remainingFragments |-> union(<<>>, op.usedFragments),
                      usedVariables |-> <<>>,
                      newFragments |-> <<>>,
                      fragmentSet |-> {}])
      operationOrFragmentVariables == union(union(<<>>, op.usedVariables), collected.usedVariables)
  IN [variableDefinitions |->
         SelectSeq(doc.variableDefinitions,
                   LAMBDA v : Includes(operationOrFragmentVariables, v)),
      selections |-> op.selections,
      fragments |-> collected.newFragments,
      variables |-> {nv \in doc.variables : Includes(operationOrFragmentVariables, nv[1])}]

\* the selection sets of a request: up to MaxSelections different selections
SelectionsOf(items) ==
  UNION {{q \in [1..n -> items] : \A i \in 1..n : \A j \in 1..n : q[i] = q[j] => i = j} :
         n \in 1..MaxSelections}

LeafField(name) == FieldSel(name, <<>>, <<>>)

\* the requests: one query operation that defines the variables id and lang
\* and selects user, search, version or the fragment QueryFields, and the
\* fragments of the original operation, used or not
UserFields ==
  {FieldSel("user", a, q) :
     a \in {<<>>, <<Arg("id", "id")>>, <<Arg("id", "id"), Arg("lang", "lang")>>},
     q \in SelectionsOf({LeafField("id"), LeafField("email"), Inline("User", <<LeafField("email")>>),
                         Spread("UserFields")})}

SearchFields ==
  {FieldSel("search", a, q) :
     a \in {<<>>, <<Arg("term", "id")>>},
     q \in SelectionsOf({LeafField("__typename"), Inline("Post", <<LeafField("title")>>),
                         Inline("User", <<LeafField("id")>>), Spread("PostFields")})}

Requests ==
  {[variableDefinitions |-> <<"id", "lang">>,
    selections |-> q,
    fragments |-> <<[name |-> "UserFields", typeCondition |-> "User",
                     selections |-> <<LeafField("id"), LeafField("email")>>],
                    [name |-> "PostFields", typeCondition |-> "Post",
                     selections |-> <<LeafField("title")>>],
                    [name |-> "QueryFields", typeCondition |-> "Query",
                     selections |-> <<FieldSel("user", <<Arg("lang", "lang")>>,
                                               <<LeafField("id")>>)>>]>>,
    variables |-> v] :
     q \in {<<u>> : u \in UserFields} \cup {<<s>> : s \in SearchFields}
           \cup {<<u, s>> : u \in UserFields, s \in SearchFields}
           \cup {<<LeafField("version"), u>> : u \in UserFields}
           \cup {<<Spread("QueryFields")>>}
           \cup {<<Spread("QueryFields"), s>> : s \in SearchFields},
     v \in {{<<"id", 1>>, <<"lang", 2>>}, {<<"id", 1>>}}}

\* FilterToSchema.transformRequest: the request with its document and
\* variables replaced by the filtered ones; the next pass filters the result
FilterRequest ==
  /\ Len(passes) < MaxPasses
  /\ \E input \in {IF passes = <<>> THEN originalRequest ELSE passes[Len(passes)]} :
       passes' = Append(passes, filterToSchema(targetSchema, input))
  /\ UNCHANGED <<targetSchema, originalRequest, wrapped, gateway>>
  /\ UNCHANGED <<delegationContext, implemented, transformers, contexts, hooks>>
  /\ UNCHANGED engine

InitFilter ==
  /\ NoEngine
  /\ NoDelegation
  /\ NoWrapping
  /\ NoGateway
  /\ targetSchema \in TargetSchemas
  /\ originalRequest \in Requests
  /\ passes = <<>>

NextFilter == FilterRequest

SpecFilter == InitFilter /\ [][NextFilter]_vars

(***************************************************************************)
(* WrapFields: the fields selected under the wrapping fields are hoisted   *)
(* to the outer type under indexing aliases, and the result is put back    *)
(* under the wrapping fields.                                              *)
(***************************************************************************)
\* a field node with its alias ("" for none) and selections, and an inline
\* fragment
Aliased(name, alias, selections) ==
  [kind |-> "Field", name |-> name, alias |-> alias, selections |-> selections]

InlineOf(selections) ==
  [kind |-> "InlineFragment", name |-> "", alias |-> "", selections |-> selections]

\* fieldNode.alias != null ? fieldNode.alias.value : fieldNode.name.value
aliasOf(fieldNode) == IF fieldNode.alias # "" THEN fieldNode.alias ELSE fieldNode.name

\* `__${prefix}${nextIndex}__` with the default prefix gqtld
IndexingAliases ==
  <<"__gqtld0__", "__gqtld1__", "__gqtld2__", "__gqtld3__", "__gqtld4__", "__gqtld5__",
    "__gqtld6__", "__gqtld7__", "__gqtld8__", "__gqtld9__", "__gqtld10__", "__gqtld11__",
    "__gqtld12__", "__gqtld13__", "__gqtld14__", "__gqtld15__", "__gqtld16__", "__gqtld17__">>

indexingAlias(nextIndex) == IndexingAliases[nextIndex + 1]

\* transformationContext.nextIndex++
increment_skipped(nextIndex) == nextIndex

increment(nextIndex) == nextIndex + 1

\* collectFields(selectionSet, fragments): the field nodes of a selection
\* set, those of its inline fragments in their place
RECURSIVE collectFieldsIn(_)
collectFieldsIn(selections) ==
  IF selections = <<>> THEN <<>>
  ELSE (IF Head(selections).kind = "Field" THEN <<Head(selections)>>
        ELSE collectFieldsIn(Head(selections).selections))
       \o collectFieldsIn(Tail(selections))

\* hoistFieldNodes for a field node at depth index of the wrapping path: the
\* fields under the remaining wrapping fields, each under a new indexing
\* alias, with the context recording for the alias the path of aliases that
\* led to the field and the field's own response key.  hoistOver is the
\* forEach over the collected fields of the node.
RECURSIVE hoistFieldNodes(_, _, _, _, _, _)
RECURSIVE hoistOver(_, _, _, _, _, _, _)
hoistFieldNodes(fieldNode, fieldNames, path, transformationContext, index, wrappingPath) ==
  hoistOver(collectFieldsIn(fieldNode.selections), fieldNames, path, transformationContext,
            index, wrappingPath \o <<aliasOf(fieldNode)>>, <<>>)

hoistOver(possible, fieldNames, path, ctx, index, newWrappingPath, newFieldNodes) ==
  IF possible = <<>> THEN [newFieldNodes |-> newFieldNodes, context |-> ctx]
  ELSE IF index < Len(path)
  THEN IF Head(possible).name = path[index + 1]
       THEN \* newFieldNodes.concat(hoistFieldNodes({... index: index + 1}))
            hoistOver(Tail(possible), fieldNames, path,
                      hoistFieldNodes(Head(possible), fieldNames, path, ctx, index + 1,
                                      newWrappingPath).context,
                      index, newWrappingPath,
                      newFieldNodes \o hoistFieldNodes(Head(possible), fieldNames, path, ctx,
                                                       index + 1, newWrappingPath).newFieldNodes)
       ELSE hoistOver(Tail(possible), fieldNames, path, ctx, index, newWrappingPath,
                      newFieldNodes)
  ELSE IF fieldNames = <<>> \/ Includes(fieldNames, Head(possible).name)
       THEN hoistOver(Tail(possible), fieldNames, path,
                      [nextIndex |-> increment(ctx.nextIndex),
                       paths |-> (indexingAlias(ctx.nextIndex) :>
                                    [pathToField |-> newWrappingPath,
                                     alias |-> aliasOf(Head(possible))]) @@ ctx.paths],
                      index, newWrappingPath,
                      Append(newFieldNodes,
                             [Head(possible) EXCEPT !.alias = indexingAlias(ctx.nextIndex)]))
       ELSE hoistOver(Tail(possible), fieldNames, path, ctx, index, newWrappingPath,
                      newFieldNodes)

\* MapFields applies the field-node transformer of the outermost wrapping
\* field to each such field of the outer type and puts the nodes it returns
\* in the place of the field; the other fields stay
RECURSIVE MapFields(_, _, _, _)
MapFields(selections, wrap, ctx, out) ==
  IF selections = <<>> THEN [selections |-> out, context |-> ctx]
  ELSE IF Head(selections).name = wrap.wrappingFieldNames[1]
  THEN MapFields(Tail(selections), wrap,
                 hoistFieldNodes(Head(selections), wrap.fieldNames,
                                 Tail(wrap.wrappingFieldNames), ctx, 0, <<>>).context,
                 out \o hoistFieldNodes(Head(selections), wrap.fieldNames,
                                        Tail(wrap.wrappingFieldNames), ctx, 0, <<>>).newFieldNodes)
  ELSE MapFields(Tail(selections), wrap, ctx, Append(out, Head(selections)))

\* the value an executor gives a field, whatever its alias: null for the
\* field n, and otherwise a value that tells the field
ValueOf(name) == IF name = "n" THEN "null" ELSE name

\* the result object of an executor that answers the request as it is: one
\* entry per response key, in the order of the request
RECURSIVE Execute(_, _)
Execute(selections, out) ==
  IF selections = <<>> THEN out
  ELSE Execute(Tail(selections),
               IF \E i \in DOMAIN out : out[i][1] = aliasOf(Head(selections)) THEN out
               ELSE Append(out, <<aliasOf(Head(selections)), ValueOf(Head(selections).name)>>))

\* dehoistValue(originalValue, context): the new object as the set of its
\* leaves, each with the path of keys to it.  An entry whose key the context
\* has no path for is copied; one it has a path for is put under
\* pathToField and the recorded response key, replacing what was there.
RECURSIVE dehoistValue(_, _, _)
dehoistValue(originalValue, context, newValue) ==
  IF originalValue = <<>> THEN newValue
  ELSE LET alias == Head(originalValue)[1]
           at == IF alias \in DOMAIN context.paths
                 THEN context.paths[alias].pathToField \o <<context.paths[alias].alias>>
                 ELSE <<alias>>
       IN dehoistValue(Tail(originalValue), context,
                       {e \in newValue : e[1] # at} \cup {<<at, Head(originalValue)[2]>>})

\* the requests on the outer type: the wrapping field, with or without an
\* alias, once or twice, beside a field of the outer type itself; under the
\* wrapping fields up to MaxSelections of the fields a, b, n and __typename,
\* with or without an alias or inside an inline fragment; __typename may
\* also be selected on the outermost wrapping field
WrappedSelections ==
  SelectionsOf({Aliased("a", "", <<>>), Aliased("b", "", <<>>), Aliased("a", "x", <<>>),
                Aliased("n", "", <<>>), Aliased("__typename", "", <<>>),
                InlineOf(<<Aliased("b", "", <<>>)>>)})

WrapNodes(names) ==
  IF Len(names) = 1
  THEN {Aliased(names[1], al, q) : al \in {"", "w"}, q \in WrappedSelections}
  ELSE {Aliased(names[1], al, <<Aliased(names[2], il, q)>>) :
          al \in {"", "w"}, il \in {"", "i"}, q \in WrappedSelections}
       \cup {Aliased(names[1], "", <<Aliased(names[2], "", <<Aliased("a", "", <<>>)>>),
                                     Aliased(names[2], "i", q)>>) : q \in WrappedSelections}
       \cup {Aliased(names[1], "", <<Aliased("__typename", "", <<>>),
                                     Aliased(names[2], "", q)>>) : q \in WrappedSelections}

WrapRequests(names) ==
  {<<w>> : w \in WrapNodes(names)}
    \cup {<<Aliased("other", "", <<>>), w>> : w \in WrapNodes(names)}
    \cup {<<w, Aliased("other", "o", <<>>), Aliased(names[1], al, v.selections)>> :
            w \in WrapNodes(names), al \in {"", "w2"},
            v \in {n \in WrapNodes(names) : n.alias = "" /\ Len(n.selections) = 1
                                            /\ n.selections[1].alias = ""
                                            /\ Len(n.selections[1].selections) <= 1}}

\* new WrapFields(outerTypeName, wrappingFieldNames, wrappingTypeNames,
\* fieldNames?): one or two wrapping fields, all fields or the listed ones
WrapConfigs ==
  {[wrappingFieldNames |-> names, fieldNames |-> fieldNames] :
     names \in {<<"wrap">>, <<"wrap", "inner">>},
     fieldNames \in {<<>>, <<"a", "b", "n">>}}

\* WrapFields.transformRequest: the context is reset and the request mapped
WrapRequest ==
  /\ wrapped.phase = "request"
  /\ \E out \in {MapFields(wrapped.selections, wrapped.wrap,
                           [nextIndex |-> 0, paths |-> <<>>], <<>>)} :
       wrapped' = [wrapped EXCEPT !.phase = "requested",
                                  !.transformed = out.selections,
                                  !.context = out.context]
  /\ UNCHANGED <<delegationContext, implemented, transformers, contexts, hooks, filtering, gateway>>
  /\ UNCHANGED engine

\* WrapFields.transformResult on the result of the transformed request: the
\* object of the outer type, or null
UnwrapResult(isNull) ==
  /\ wrapped.phase = "requested"
  /\ wrapped' = [wrapped EXCEPT !.phase = "done",
                                !.result = IF isNull THEN <<>>
                                           ELSE Execute(wrapped.transformed, <<>>),
                                !.isNull = isNull,
                                !.value = IF isNull THEN {}
                                          ELSE dehoistValue(Execute(wrapped.transformed, <<>>),
                                                            wrapped.context, {})]
  /\ UNCHANGED <<delegationContext, implemented, transformers, contexts, hooks, filtering, gateway>>
  /\ UNCHANGED engine

InitWrap ==
  /\ NoEngine
  /\ NoDelegation
  /\ NoFiltering
  /\ NoGateway
  /\ \E wrap \in WrapConfigs : \E selections \in WrapRequests(wrap.wrappingFieldNames) :
       wrapped = [wrap |-> wrap, selections |-> selections, phase |-> "request",
                  transformed |-> <<>>, context |-> [nextIndex |-> 0, paths |-> <<>>],
                  result |-> <<>>, isNull |-> FALSE, value |-> {}]

NextWrap ==
  \/ WrapRequest
  \/ \E isNull \in BOOLEAN : UnwrapResult(isNull)

SpecWrap == InitWrap /\ [][NextWrap]_vars

(***************************************************************************)
(* Properties of the planner's rounds.                                     *)
(***************************************************************************)
\* C1: the planner finishes after finitely many rounds: a round is followed
\* by another only when its delegation map is not empty, the next round
\* receives only field nodes the round left unproxiable and only target
\* subschemas it left non-proxiable, the number of unproxiable field nodes
\* never grows from a round to the next, a round that does not make it
\* smaller has nothing to delegate and so is the last, and there is at most
\* one round more than there are target subschemas.
C1_Termination ==
  /\ Len(rounds) <= Len(targetSubschemasOf(SourceSubschema)) + 1
  /\ \A r \in DOMAIN rounds :
       /\ r < Len(rounds) => rounds[r].delegationMap # <<>>
       /\ r > 1 =>
            /\ SeqToSet(rounds[r].fieldNodes)
                 \subseteq SeqToSet(rounds[r - 1].unproxiableFieldNodes)
            /\ SeqToSet(rounds[r].fieldNodes)
                 \cap SeqToSet(rounds[r - 1].proxiableFieldNodes) = {}
            /\ SeqToSet(rounds[r].targets)
                 \subseteq SeqToSet(rounds[r - 1].nonProxiableSubschemas)
            /\ SeqToSet(rounds[r].targets)
                 \cap SeqToSet(rounds[r - 1].proxiableSubschemas) = {}
            /\ Len(rounds[r].unproxiableFieldNodes)
                 <= Len(rounds[r - 1].unproxiableFieldNodes)
            /\ Len(rounds[r].unproxiableFieldNodes)
                 = Len(rounds[r - 1].unproxiableFieldNodes)
                 => rounds[r].delegationMap = <<>>

\* three rounds have delegated, each with fewer unproxiable field nodes than
\* the one before, and a fourth has found nothing left to plan
C1_Witness ==
  /\ Len(rounds) = 4
  /\ rounds[4].delegationMap = <<>>
  /\ \A r \in 1..3 : rounds[r].delegationMap # <<>>
  /\ Len(rounds[2].unproxiableFieldNodes) < Len(rounds[1].unproxiableFieldNodes)

\* C2: rounds are strictly ordered: when a merged-type resolver of a round
\* after the first has been invoked, every sub-request of the round before
\* has settled and its results have been merged, and the resolver was given
\* that merged parent, which is a new object and not the object the round
\* before planned from.
C2_RoundOrdering ==
  /\ \A i \in DOMAIN log :
       log[i].round > 1 =>
         LET prev == rounds[log[i].round - 1]
         IN /\ AllSettled(prev)
            /\ prev.merged # 0
            /\ log[i].object = prev.merged
            /\ log[i].object # prev.object
  /\ \A r \in DOMAIN rounds :
       r > 1 => /\ AllSettled(rounds[r - 1])
                /\ rounds[r].object = rounds[r - 1].merged
                /\ rounds[r].object # 0

\* a resolver of the second round has been invoked on the merged parent
C2_Witness ==
  \E i \in DOMAIN log :
    /\ log[i].round = 2
    /\ log[i].object = rounds[1].merged
    /\ Len(rounds[1].resultMap) >= 2

\* C3: a round with an empty delegation map invokes no merged-type
\* resolver and resolves the response key of every unproxiable field node
\* to the round's object itself, unchanged; a resolver waiting for such a
\* key then reads undefined from it and does not end in an error.
C3_DeadEnd ==
  \A r \in DOMAIN rounds :
    (rounds[r].delegationMap = <<>> /\ rounds[r].fieldNodes # <<>>) =>
      /\ rounds[r].invoked = <<>>
      /\ \A k \in NodeKeys(rounds[r].unproxiableFieldNodes) :
           entry[k] = [st |-> "obj", id |-> rounds[r].object]
      /\ \A i \in DOMAIN infoResult :
           ResponseKey(infoResult[i].node) \in NodeKeys(rounds[r].unproxiableFieldNodes)
             => infoResult[i].res \in {"pending", "undefined"}

\* C4: a failing merged-type resolver does not fail the planner: no round
\* ends by throwing, every subschema of the round's delegation map has had
\* its resolver invoked, and the merge of the round's results does not
\* throw.
C4_ErrorsCaptured ==
  \A r \in DOMAIN rounds :
    /\ ~rounds[r].threw
    /\ Len(rounds[r].invoked) = Len(rounds[r].delegationMap)
    /\ ~rounds[r].mergeThrew

\* C6 (the fields proxiable in a round): once the round's results are
\* merged, the entry under the response key of each field node the round
\* delegated is the round's merged parent, and that object contains the
\* field.
C6_EntriesContainField ==
  \A r \in DOMAIN rounds :
    rounds[r].merged # 0 =>
      \A i \in DOMAIN rounds[r].proxiableFieldNodes :
        LET k == ResponseKey(rounds[r].proxiableFieldNodes[i])
        IN /\ entry[k] = [st |-> "obj", id |-> rounds[r].merged]
           /\ heap.objs[rounds[r].merged].data[k] # Undef

(***************************************************************************)
(* Properties of annotateExternalObject and mergeExternalObjects.          *)
(***************************************************************************)
\* C7: mergeExternalObjects is idempotent: merging an object that an
\* earlier merge with sources returned again with an empty source list
\* returns an object with the same data, the same origin subschema and the
\* same field-subschema map as it had before the call.
C7_MergeIdempotent ==
  (last.op = "merge" /\ last.sources = <<>> /\ last.target \in ext.merged) =>
    /\ ~last.threw
    /\ View(heap, last.result) = last.before

\* a merge of a target with a source object has recorded the source's keys
\* in the field-subschema map, and its result has been merged again with
\* no sources
C7_Witness ==
  /\ last.op = "merge"
  /\ last.sources = <<>>
  /\ last.target \in ext.merged
  /\ last.before.map # NoMap
  /\ last.before.data # NoData

\* C9: isExternalObject holds of exactly the objects that
\* annotateExternalObject or mergeExternalObjects has returned: each of
\* them has its unpathed errors defined, whatever was done to it since, and
\* no other object has.
C9_ExternalObjects ==
  \A id \in DOMAIN heap.objs :
    isExternalObject(heap, id) <=> id \in ext.annotated \cup ext.merged

\* a merge has returned a new object, which is an external object, while
\* another object that neither operation returned is not
C9_Witness ==
  /\ \E id \in ext.merged \ ext.annotated : isExternalObject(heap, id)
  /\ \E id \in DOMAIN heap.objs :
       id \notin ext.annotated \cup ext.merged /\ ~isExternalObject(heap, id)

\* the subschemas a run delegated to own disjoint fields of the requested set
DisjointOwners(run) ==
  \A i \in DOMAIN run.fieldNodes :
    Cardinality({s \in run.delegated : run.fieldNodes[i].name \in TypeFields(s)}) <= 1

\* C8: when the subschemas delegated to own disjoint fields of the
\* requested set, the merged parent has the same data, origin and
\* field-subschema map whatever the order of the target subschemas and the
\* order in which their sub-requests complete.
C8_OrderIndependent ==
  \A i, j \in DOMAIN runs :
    (DisjointOwners(runs[i]) /\ DisjointOwners(runs[j])) =>
      /\ runs[i].threw = runs[j].threw
      /\ runs[i].view = runs[j].view

(***************************************************************************)
(* Properties of the loaders.                                              *)
(***************************************************************************)
\* C5: the infos loaded on one parent in one tick are handed to the batch
\* function in exactly one call, made for that parent at the end of that
\* tick with all of them; each load gets the promise under its own response
\* key; loads on different parents are never in the same call.
C5_PerParentBatching ==
  /\ \A l \in DOMAIN loads :
       /\ loads[l].call = 0 => loads[l].tick = tick
       /\ loads[l].call > 0 =>
            /\ calls[loads[l].call].parent = loads[l].parent
            /\ calls[loads[l].call].tick = loads[l].tick
            /\ Includes(calls[loads[l].call].infos, l)
            /\ Includes(calls[loads[l].call].fieldNodes, loads[l].node)
            /\ loads[l].key = ResponseKey(loads[l].node)
  /\ \A l, m \in DOMAIN loads :
       (loads[l].call > 0 /\ loads[m].call > 0) =>
         (loads[l].call = loads[m].call
            <=> (loads[l].parent = loads[m].parent /\ loads[l].tick = loads[m].tick))
  /\ \A i, j \in DOMAIN calls :
       (calls[i].parent = calls[j].parent /\ calls[i].tick = calls[j].tick) => i = j

\* two fields loaded on one parent and one on the other in the same tick
\* have been dispatched: the two share a call, the third has its own
C5_Witness ==
  \E l, m, n \in DOMAIN loads :
    /\ l # m
    /\ loads[l].call > 0 /\ loads[l].call = loads[m].call
    /\ loads[n].call > 0 /\ loads[n].call # loads[l].call
    /\ loads[n].tick = loads[l].tick
    /\ loads[n].parent # loads[l].parent

(***************************************************************************)
(* Properties of the field-subschema maps.                                 *)
(***************************************************************************)
\* C10 as stated: every call of mergeExternalObjects is made by the
\* planner.
C10_PlannerOnly ==
  \A i \in DOMAIN mergeCalls : mergeCalls[i].caller = "planner"

\* C10: a field-subschema map that exists changes only in a step that
\* calls mergeExternalObjects, and mergeExternalObjects is called by the
\* planner and by the receiver's _iterate only.
C10_MapOwners ==
  [][/\ (\E m \in DOMAIN heap.maps : heap'.maps[m] # heap.maps[m])
          => Len(mergeCalls') = Len(mergeCalls) + 1
     /\ \A i \in DOMAIN mergeCalls' : mergeCalls'[i].caller \in {"planner", "receiver"}]_vars

\* the planner's merge has written the parent's map, and the receiver has
\* merged a patch for a path it had a value for
C10_Witness ==
  /\ heap.maps[1] # NoMap
  /\ \E i \in DOMAIN mergeCalls : mergeCalls[i].caller = "planner"
  /\ \E i \in DOMAIN mergeCalls : mergeCalls[i].caller = "receiver"

(***************************************************************************)
(* Properties of the default merged resolver.                              *)
(***************************************************************************)
\* C11: a default merged resolver call on an external parent that has a
\* defined value under the response key returns what resolveExternalValue
\* makes of that value, and the call loads nothing on a loader, invokes no
\* merged-type resolver and requests nothing of the receiver; a call on an
\* object that is not an external object returns what defaultFieldResolver
\* returns, with as little effect.
C11_ShortCircuit ==
  [][Len(resolved') = Len(resolved) + 1 =>
       LET r == resolved'[Len(resolved')]
           quiet == /\ batch' = batch
                    /\ recv' = recv
                    /\ log' = log
                    /\ rounds' = rounds
                    /\ loaders' = loaders
       IN /\ (/\ r.parent # NullParent
              /\ heap.objs[r.parent].errorsDef
              /\ heap.objs[r.parent].data[ResponseKey(r.node)] # Undef)
               => (r.route \in {"value", "null", "error"} /\ quiet)
          /\ (r.parent # NullParent /\ ~heap.objs[r.parent].errorsDef)
               => (r.route = "default" /\ quiet)]_vars

\* the resolver has answered id from the external parent's own value and
\* has fallen back to the default resolver on the other object, in a tick
\* in which another field went to the loader
C11_Witness ==
  /\ \E i \in DOMAIN resolved :
       resolved[i].parent = Parent /\ resolved[i].node.name = "id"
         /\ resolved[i].route = "value"
  /\ \E i \in DOMAIN resolved :
       resolved[i].parent = PlainParent /\ resolved[i].route = "default"
  /\ batch # <<>>

\* whether the field is one of the type of the parent's subschema
InSourceType(r) == r.node.name \in TypeFields(heap.objs[r.parent].origin)

\* whether the call found no value under the response key of an external parent
IsMiss(r) ==
  /\ r.parent # NullParent
  /\ heap.objs[r.parent].errorsDef
  /\ heap.objs[r.parent].data[ResponseKey(r.node)] = Undef

\* what a resolver that went to the loader has settled to, against the
\* merged parent that arrived under its response key
ReadsMergedParent ==
  \A i \in DOMAIN infoResult :
    LET e == entry[ResponseKey(infoResult[i].node)]
        key == ResponseKey(infoResult[i].node)
    IN (infoResult[i].loaded /\ infoResult[i].res # "pending" /\ e.st = "obj") =>
         /\ infoResult[i].res \in {"value", "null", "error"}
              <=> heap.objs[e.id].data[key] # Undef
         /\ infoResult[i].res = "receiver"
              <=> (heap.objs[e.id].data[key] = Undef /\ recv.exists /\ e.id = Parent)
         /\ infoResult[i].res = "undefined"
              <=> (heap.objs[e.id].data[key] = Undef /\ ~(recv.exists /\ e.id = Parent))

CallsOf(d, method) ==
  SelectSeq(hooks, LAMBDA e : e.transformer = d /\ e.method = method)

\* the transform at position i of transformer d defines the method
Defines(d, i, method) ==
  method \in implemented[transformers[d].transformations[i].transform]

\* C13: transformRequest calls the transforms of the list from the first to
\* the last and transformResult from the last to the first, each skipping
\* the transforms that do not define the method; so when a transform's
\* transformResult runs, the result still carries the rewriting of that
\* transform and of every transform before it, and every later transform
\* that defines transformResult has already undone its own.
C13_PipelineOrder ==
  \A d \in DOMAIN transformers :
    LET n == Len(transformers[d].transformations)
        req == CallsOf(d, "transformRequest")
        res == CallsOf(d, "transformResult")
    IN /\ transformers[d].phase \in {"requested", "done"} =>
            /\ {req[k].index : k \in DOMAIN req} = {i \in 1..n : Defines(d, i, "transformRequest")}
            /\ \A k \in DOMAIN req : \A l \in DOMAIN req : k < l => req[k].index < req[l].index
       /\ transformers[d].phase = "done" =>
            /\ {res[k].index : k \in DOMAIN res} = {i \in 1..n : Defines(d, i, "transformResult")}
            /\ \A k \in DOMAIN res : \A l \in DOMAIN res : k < l => res[k].index > res[l].index
            /\ \A k \in DOMAIN res : \A j \in 1..n :
                 Defines(d, j, "transformRequest") =>
                   (Includes(res[k].value, j) <=>
                      (j <= res[k].index \/ ~Defines(d, j, "transformResult")))
       /\ transformers[d].phase = "built" => req = <<>>
       /\ transformers[d].phase # "done" => res = <<>>

C13_Witness ==
  \E d \in DOMAIN transformers :
    /\ transformers[d].phase = "done"
    /\ \E i, j, k, l \in DOMAIN transformers[d].transformations :
         /\ i < j
         /\ Defines(d, i, "transformRequest") /\ Defines(d, i, "transformResult")
         /\ Defines(d, j, "transformRequest") /\ Defines(d, j, "transformResult")
         /\ ~Defines(d, k, "transformRequest")
         /\ ~Defines(d, l, "transformResult")

\* C14: each transform of a delegation has a transformation-context object
\* of its own: it is empty when the transform is first called, the object
\* handed to its transformResult is the one that was handed to its
\* transformRequest and holds what that call left in it, and no other
\* transform, of the same delegation or of another, is ever handed it.
C14_PrivateContext ==
  /\ \A a \in DOMAIN hooks : \A b \in DOMAIN hooks :
       (hooks[a].context = hooks[b].context)
         <=> (hooks[a].transformer = hooks[b].transformer /\ hooks[a].index = hooks[b].index)
  /\ \A a \in DOMAIN hooks :
       hooks[a].seen =
         IF \E b \in 1..(a - 1) :
              /\ hooks[b].transformer = hooks[a].transformer
              /\ hooks[b].index = hooks[a].index
              /\ ~IgnoresContext(hooks[b].transform)
         THEN {<<hooks[a].transformer, hooks[a].index>>}
         ELSE {}

C14_Witness ==
  /\ Len(transformers) = 2
  /\ \A d \in DOMAIN transformers : transformers[d].phase = "done"
  /\ \E a \in DOMAIN hooks : \E b \in DOMAIN hooks :
       /\ hooks[a].transform = "WrapFields" /\ hooks[b].transform = "WrapFields"
       /\ hooks[a].transformer = 1 /\ hooks[b].transformer = 2
       /\ hooks[a].method = "transformResult" /\ hooks[b].method = "transformResult"
  /\ \E a \in DOMAIN hooks : \E b \in DOMAIN hooks :
       /\ hooks[a].transformer = hooks[b].transformer
       /\ hooks[a].transform = hooks[b].transform
       /\ hooks[a].index # hooks[b].index

\* C15: whatever the delegation context holds, the last transform of the
\* default binding, and so the last transformRequest called, is FilterToSchema.
C15_FilterToSchemaLast ==
  \A d \in DOMAIN transformers :
    LET tns == transformers[d].transformations
        req == CallsOf(d, "transformRequest")
    IN /\ tns # <<>>
       /\ tns[Len(tns)].transform = "FilterToSchema"
       /\ \A i \in 1..(Len(tns) - 1) : tns[i].transform # "FilterToSchema"
       /\ transformers[d].phase # "built" =>
            req # <<>> /\ req[Len(req)].transform = "FilterToSchema"

C15_Witness ==
  /\ delegationContext.stitchingInfo /\ delegationContext.args
  /\ Len(delegationContext.transforms) = MaxTransforms
  /\ \E d \in DOMAIN transformers : transformers[d].phase = "requested"

\* C16 as stated: no transform that removes fields or selection sets from
\* the request is called after AddTypename.
C16_AddTypenameLast ==
  \A d \in DOMAIN transformers :
    LET req == CallsOf(d, "transformRequest")
    IN \A k \in DOMAIN req : \A l \in DOMAIN req :
         (req[k].transform = "AddTypename" /\ k < l) => ~DropsFields(req[l].transform)

\* C16: AddTypename is the last transform of the default binding but one:
\* every transform the delegation context lists and every other built-in
\* transform is called before it, and the only transform called after it is
\* FilterToSchema.
C16_AddTypenameBeforeFilter ==
  \A d \in DOMAIN transformers :
    LET tns == transformers[d].transformations
        req == CallsOf(d, "transformRequest")
    IN /\ Len(tns) >= 2
       /\ tns[Len(tns) - 1].transform = "AddTypename"
       /\ \A i \in DOMAIN tns : tns[i].transform = "AddTypename" => i = Len(tns) - 1
       /\ \A k \in DOMAIN req : \A l \in DOMAIN req :
            (req[k].transform = "AddTypename" /\ k < l) => req[l].transform = "FilterToSchema"

C16_Witness ==
  /\ delegationContext.args
  /\ delegationContext.transforms # <<>>
  /\ \E d \in DOMAIN transformers :
       /\ transformers[d].phase = "requested"
       /\ \E k \in DOMAIN hooks : \E l \in DOMAIN hooks :
            /\ k < l
            /\ hooks[k].transformer = d /\ hooks[l].transformer = d
            /\ hooks[k].transform = "AddTypename"
            /\ DropsFields(hooks[l].transform)

\* C17: the transforms the delegation context lists are placed after
\* ExpandAbstractTypes, AddSelectionSets and WrapConcreteTypes and before
\* AddArgumentsAsVariables, AddTypename and FilterToSchema, in the reverse of
\* the order of the list, and building a transformer leaves the list of the
\* delegation context as it was.
C17_UserTransformsReversed ==
  [][ /\ delegationContext' = delegationContext
      /\ \A d \in DOMAIN transformers' :
           LET tns == transformers'[d].transformations
               u == delegationContext.transforms
           IN \E k \in DOMAIN tns :
                /\ tns[k].transform = "WrapConcreteTypes"
                /\ \A i \in 1..k :
                     tns[i].transform \in {"ExpandAbstractTypes", "AddSelectionSets", "WrapConcreteTypes"}
                /\ k + Len(u) < Len(tns)
                /\ \A i \in 1..Len(u) : tns[k + i].transform = u[Len(u) + 1 - i]
                /\ \A i \in (k + Len(u) + 1)..Len(tns) :
                     tns[i].transform \in {"AddArgumentsAsVariables", "AddTypename", "FilterToSchema"}
    ]_vars

C17_Witness ==
  /\ Len(delegationContext.transforms) = 2
  /\ delegationContext.transforms[1] # delegationContext.transforms[2]
  /\ delegationContext.args /\ delegationContext.stitchingInfo
  /\ Len(transformers) = 2

(***************************************************************************)
(* Properties of FilterToSchema.                                           *)
(***************************************************************************)
\* the type of the field a selection names under a parent type, "" if none
TypeOfField(schema, parentType, name) ==
  IF name = "__typename" THEN "String"
  ELSE IF <<parentType, name>> \in DOMAIN schema.fields
  THEN schema.fields[<<parentType, name>>].type
  ELSE ""

\* every field of the selections is a field of its parent type in the
\* schema and has declared arguments only, and every inline fragment is on
\* a type of the schema
RECURSIVE InSchema(_, _, _)
InSchema(schema, parentType, selections) ==
  \A i \in DOMAIN selections :
    LET node == selections[i]
    IN CASE node.kind = "Field" ->
              /\ node.name = "__typename" \/ <<parentType, node.name>> \in DOMAIN schema.fields
              /\ \A a \in DOMAIN node.arguments :
                   /\ <<parentType, node.name>> \in DOMAIN schema.fields
                   /\ node.arguments[a].name \in schema.fields[<<parentType, node.name>>].args
              /\ InSchema(schema, TypeOfField(schema, parentType, node.name), node.selections)
         [] node.kind = "InlineFragment" ->
              /\ node.name # "" => hasType(schema, node.name)
              /\ InSchema(schema, IF node.name # "" THEN node.name ELSE parentType,
                          node.selections)
         [] OTHER -> TRUE

\* no field of a composite type is left without selections
RECURSIVE NoEmptySelectionSet(_, _, _)
NoEmptySelectionSet(schema, parentType, selections) ==
  \A i \in DOMAIN selections :
    LET node == selections[i]
    IN CASE node.kind = "Field" ->
              /\ KindOf(schema, TypeOfField(schema, parentType, node.name)) \in {"object", "union"}
                   => node.selections # <<>>
              /\ NoEmptySelectionSet(schema, TypeOfField(schema, parentType, node.name),
                                     node.selections)
         [] node.kind = "InlineFragment" ->
              NoEmptySelectionSet(schema, IF node.name # "" THEN node.name ELSE parentType,
                                  node.selections)
         [] OTHER -> TRUE

\* the variables and the fragments the selections use
RECURSIVE VariablesIn(_)
VariablesIn(selections) ==
  UNION {{selections[i].arguments[a].variable : a \in DOMAIN selections[i].arguments}
           \cup VariablesIn(selections[i].selections) : i \in DOMAIN selections}

RECURSIVE SpreadsIn(_)
SpreadsIn(selections) ==
  UNION {(IF selections[i].kind = "FragmentSpread" THEN {selections[i].name} ELSE {})
           \cup SpreadsIn(selections[i].selections) : i \in DOMAIN selections}

\* the variables the operation of a document and its fragments use
UsedIn(doc) ==
  VariablesIn(doc.selections)
    \cup UNION {VariablesIn(doc.fragments[i].selections) : i \in DOMAIN doc.fragments}

\* a filtered document holds only what the target schema has
FilteredToSchema(schema, doc) ==
  /\ InSchema(schema, "Query", doc.selections)
  /\ \A i \in DOMAIN doc.fragments :
       /\ hasType(schema, doc.fragments[i].typeCondition)
       /\ InSchema(schema, doc.fragments[i].typeCondition, doc.fragments[i].selections)
  /\ SpreadsIn(doc.selections)
       \cup UNION {SpreadsIn(doc.fragments[i].selections) : i \in DOMAIN doc.fragments}
       \subseteq {doc.fragments[i].name : i \in DOMAIN doc.fragments}
  /\ {doc.variableDefinitions[i] : i \in DOMAIN doc.variableDefinitions} \subseteq UsedIn(doc)
  /\ {nv[1] : nv \in doc.variables} \subseteq UsedIn(doc)

\* C18: the document FilterToSchema produces has no field absent from its
\* type in the target schema, no argument the target field does not declare,
\* no fragment or inline fragment on a type the target does not have, no
\* field of a composite type with an empty selection set, and no variable
\* definition or variable value that the remaining selections do not use.
C18_FilteredToSchema ==
  \A k \in DOMAIN passes :
    /\ FilteredToSchema(targetSchema, passes[k])
    /\ NoEmptySelectionSet(targetSchema, "Query", passes[k].selections)
    /\ \A i \in DOMAIN passes[k].fragments :
         NoEmptySelectionSet(targetSchema, passes[k].fragments[i].typeCondition,
                             passes[k].fragments[i].selections)

\* what holds of the filtered document apart from the empty selection sets
C18_OnlyTargetNames ==
  \A k \in DOMAIN passes : FilteredToSchema(targetSchema, passes[k])

RECURSIVE LeavesUnder(_, _, _, _)
LeavesUnder(fieldNode, rest, prefix, fieldNames) ==
  LET fields == collectFieldsIn(fieldNode.selections)
  IN IF rest = <<>>
     THEN {<<prefix \o <<aliasOf(fields[i])>>, ValueOf(fields[i].name)>> :
             i \in {j \in DOMAIN fields :
                      fieldNames = <<>> \/ Includes(fieldNames, fields[j].name)}}
     ELSE UNION {IF fields[i].name = rest[1]
                 THEN LeavesUnder(fields[i], Tail(rest), prefix \o <<aliasOf(fields[i])>>,
                                  fieldNames)
                 ELSE {} : i \in DOMAIN fields}

ShapeOf(selections, wrap) ==
  UNION {IF selections[i].name = wrap.wrappingFieldNames[1]
         THEN LeavesUnder(selections[i], Tail(wrap.wrappingFieldNames),
                          <<aliasOf(selections[i])>>, wrap.fieldNames)
         ELSE {<<<<aliasOf(selections[i])>>, ValueOf(selections[i].name)>>} :
         i \in DOMAIN selections}

\* the nodes of the transformed request that carry an indexing alias
HoistedIn(selections) ==
  {i \in DOMAIN selections :
     \E k \in DOMAIN IndexingAliases : selections[i].alias = IndexingAliases[k]}

RootField == "viewer"

\* path.join('.')
RECURSIVE join(_)
join(path) ==
  IF path = <<>> THEN ""
  ELSE IF Len(path) = 1 THEN path[1]
  ELSE path[1] \o "." \o join(Tail(path))

\* a payload after the initial one
Patch(path, labelled, data) == [path |-> path, labelled |-> labelled, data |-> data]

\* the patches a stream is made of: deferred fields of the viewer, of its
\* address, and a patch of another root field
PatchPool ==
  {Patch(<<"viewer">>, TRUE, {<<"age">>}),
   Patch(<<"viewer">>, FALSE, {<<"age">>}),
   Patch(<<"viewer">>, TRUE, {<<"addr", "zip">>}),
   Patch(<<"viewer">>, TRUE, {<<"addr", "street">>}),
   Patch(<<"viewer", "addr">>, TRUE, {<<"zip">>}),
   Patch(<<"other">>, TRUE, {<<"age">>})}

\* the data of the initial payload under the root field: the viewer's
\* name, with or without the address and its street
InitialData == {{<<"name">>}, {<<"name">>, <<"addr", "street">>}}

\* the paths of the infos resolvers hand to request
RequestPaths == {<<"viewer", "age">>, <<"viewer", "addr">>, <<"viewer", "addr", "zip">>}

\* parent[responseKey] !== undefined
Has(value, responseKey) == \E p \in value.data : p[1] = responseKey

\* resolveExternalValue(parent[responseKey], ...): the value under the key
Sub(value, responseKey) ==
  [n |-> value.n, at |-> value.at,
   data |-> {Tail(p) : p \in {q \in value.data : q[1] = responseKey /\ Len(q) > 1}}]

\* payload.value of a subscription the pubsub closed: undefined
NoValue == [n |-> 0 - 1, at |-> "", data |-> {}]

\* what a published value does to a subscription: _request awaits one
\* payload of its topic; _reduce goes through the payloads of its topic
\* until one has the response key
deliver(variant, req, topic, value) ==
  IF req.state # "waiting" \/ req.topic # topic THEN req
  ELSE IF variant = "V1" THEN [req EXCEPT !.state = "woken", !.value = value]
  ELSE IF Has(value, req.responseKey)
  THEN [req EXCEPT !.state = "resolved", !.value = Sub(value, req.responseKey)]
  ELSE req

\* pubsub.publish(topic, value): the subscriptions of the topic get the value
publish(rc, topic, value) ==
  [rc EXCEPT !.published = Append(@, <<topic, value>>),
             !.requests = [i \in DOMAIN @ |-> deliver(rc.variant, @[i], topic, value)]]

\* externalValues.push(newExternalValue), or the first value of the path key
push_unshift(externalValues, pathKey, newExternalValue) ==
  IF pathKey \in DOMAIN externalValues
  THEN [externalValues EXCEPT ![pathKey] = <<newExternalValue>> \o @]
  ELSE (pathKey :> <<newExternalValue>>) @@ externalValues

push(externalValues, pathKey, newExternalValue) ==
  IF pathKey \in DOMAIN externalValues
  THEN [externalValues EXCEPT ![pathKey] = Append(@, newExternalValue)]
  ELSE (pathKey :> <<newExternalValue>>) @@ externalValues

\* onNewExternalValue(pathKey, newExternalValue): the value is kept for its
\* path key; for every response key an info was registered with under the
\* path key, in order of registration, the value under the key is a new
\* external value of the deeper path key; then the value is published
RECURSIVE onNewExternalValue(_, _, _)
RECURSIVE onResponseKeys(_, _, _, _)
onResponseKeys(rc, pathKey, newExternalValue, i) ==
  IF i > Len(rc.infos) THEN rc
  ELSE IF rc.infos[i][1] = pathKey /\ Has(newExternalValue, rc.infos[i][2])
  THEN onResponseKeys(onNewExternalValue(rc, pathKey \o "." \o rc.infos[i][2],
                                         Sub(newExternalValue, rc.infos[i][2])),
                      pathKey, newExternalValue, i + 1)
  ELSE onResponseKeys(rc, pathKey, newExternalValue, i + 1)

onNewExternalValue(rc, pathKey, newExternalValue) ==
  publish(onResponseKeys([rc EXCEPT !.externalValues = push(@, pathKey, newExternalValue)],
                         pathKey, newExternalValue, 1),
          pathKey, newExternalValue)

\* parents.forEach in _request: every value kept for the parent's path key
\* that has the response key gives a new external value of the path key
RECURSIVE fromParents(_, _, _, _, _)
fromParents(rc, pathKey, responseKey, parents, i) ==
  IF i > Len(parents) THEN rc
  ELSE IF Has(parents[i], responseKey)
  THEN fromParents(onNewExternalValue(rc, pathKey, Sub(parents[i], responseKey)),
                   pathKey, responseKey, parents, i + 1)
  ELSE fromParents(rc, pathKey, responseKey, parents, i + 1)

\* a request as the receiver knows it
NewRequest(path, topic, responseKey, state, value) ==
  [path |-> path, topic |-> topic, responseKey |-> responseKey, state |-> state,
   value |-> value]

\* the end of request and _request alike: the request subscribes to its
\* topic and counts itself, and _iterate is called unless iterating is set:
\* its loop asks the iterator for a payload.  Of the two Receivers only the
\* first one's _iterate sets iterating.
subscribe(rc, path, topic, responseKey) ==
  [rc EXCEPT !.requests = Append(@, NewRequest(path, topic, responseKey, "waiting", NoValue)),
             !.numRequests = @ + 1,
             !.loops = IF rc.iterating THEN @ ELSE @ + 1,
             !.iterating = IF rc.variant = "V1" THEN TRUE ELSE @]

\* what the loader of a path key makes of the array its batch function
\* returned for one info: the array's only value, or an error when the
\* array has not one value per info
loaded(rc, path, pathKey, responseKey) ==
  [rc EXCEPT !.requests =
     Append(@, IF Len(rc.externalValues[pathKey]) = 1
               THEN NewRequest(path, pathKey, responseKey, "returned",
                               rc.externalValues[pathKey][1])
               ELSE NewRequest(path, pathKey, responseKey, "failed", NoValue))]

\* the default merged resolver hands a field to the receiver when the
\* parent it resolves the field on has no value under the response key:
\* the parent is the value of the initial payload, or the value an earlier
\* request for the parent's path was answered with; a path is resolved once
Requestable(rc, path) ==
  /\ \A i \in DOMAIN rc.requests : rc.requests[i].path # path
  /\ \E parent \in
         {v \in {[n |-> 0, at |-> RootField, data |-> rc.initial]} : Len(path) = 2}
         \cup {Sub([n |-> 0, at |-> RootField, data |-> rc.initial], path[2]) : x \in
                 {y \in {1} : Len(path) = 3 /\ \E d \in rc.initial : d[1] = path[2]}}
         \cup {rc.requests[i].value : i \in
                 {j \in DOMAIN rc.requests :
                    /\ rc.requests[j].path = SubSeq(path, 1, Len(path) - 1)
                    /\ rc.requests[j].state \in {"returned", "resolved"}
                    /\ rc.requests[j].value.n >= 0}} :
       ~Has(parent, path[Len(path)])

\* getInitialResult: the first payload of the stream; the first Receiver
\* keeps it as the value of the root field
GetInitialResult ==
  /\ receiver.phase = "constructed"
  /\ receiver' = [receiver EXCEPT
       !.phase = "initial",
       !.externalValues =
          IF receiver.variant = "V1"
          THEN (RootField :> <<[n |-> 0, at |-> RootField, data |-> receiver.initial]>>)
          ELSE @]
  /\ UNCHANGED <<delegationContext, implemented, transformers, contexts, hooks, filtering,
                 wrapped, stitching, validation, sorting, planning>>
  /\ UNCHANGED engine

\* request(info) of the first Receiver with the batch of its loader,
\* _request, for one info: the info is registered under its parent's path
\* key, the values the parent's path key has are gone through, and the
\* values of the path key, if any by now, are returned; else the request
\* subscribes
RequestV1(path) ==
  /\ receiver.phase = "initial"
  /\ receiver.variant = "V1"
  /\ Len(receiver.requests) < MaxInfos
  /\ Requestable(receiver, path)
  /\ \E responseKey \in {path[Len(path)]}, parentKey \in {join(SubSeq(path, 1, Len(path) - 1))},
        pathKey \in {join(path)} :
       \E registered \in {[receiver EXCEPT !.infos =
                            IF Includes(@, <<parentKey, responseKey>>) THEN @
                            ELSE Append(@, <<parentKey, responseKey>>)]} :
         \E rc \in {IF parentKey \in DOMAIN registered.externalValues
                    THEN fromParents(registered, pathKey, responseKey,
                                     registered.externalValues[parentKey], 1)
                    ELSE registered} :
           receiver' = IF pathKey \in DOMAIN rc.externalValues
                       THEN loaded(rc, path, pathKey, responseKey)
                       ELSE subscribe(rc, path, pathKey, responseKey)
  /\ UNCHANGED <<delegationContext, implemented, transformers, contexts, hooks, filtering,
                 wrapped, stitching, validation, sorting, planning>>
  /\ UNCHANGED engine

\* request(info) of the second Receiver: getValue looks in the value kept
\* for the parent's path key for a key named like the path's first segment,
\* the root field, which the value of the root field does not have; the
\* request subscribes to the parent's path key
RequestV2(path) ==
  /\ receiver.phase = "initial"
  /\ receiver.variant = "V2"
  /\ Len(receiver.requests) < MaxInfos
  /\ Requestable(receiver, path)
  /\ receiver' = subscribe(receiver, path, join(SubSeq(path, 1, Len(path) - 1)),
                           path[Len(path)])
  /\ UNCHANGED <<delegationContext, implemented, transformers, contexts, hooks, filtering,
                 wrapped, stitching, validation, sorting, planning>>
  /\ UNCHANGED engine

\* asyncResult.path?.[0] === this.fieldName, and for the second Receiver
\* asyncResult.label !== undefined
accepts(variant, payload) ==
  /\ payload.path[1] = RootField
  /\ variant = "V2" => payload.labelled

\* pubsub.close(): the subscriptions end, their next payload is undefined
close(rc) ==
  [rc EXCEPT !.closed = TRUE,
             !.requests = [i \in DOMAIN @ |->
                IF @[i].state = "waiting"
                THEN [@[i] EXCEPT !.state = IF rc.variant = "V1" THEN "woken" ELSE "resolved"]
                ELSE @[i]]]

\* one turn of a loop of _iterate: the payload its loop asked the iterator
\* for arrives.  A patch of the root field becomes a new external value:
\* the first Receiver hands it to onNewExternalValue, the second publishes
\* it and keeps it for its path key, merged with itself where the path key
\* has a value.  The loop goes on to ask for the next payload while the
\* stream has not ended and numRequests is not 0; the first Receiver then
\* clears iterating, and closes the pubsub when the stream has ended.
Iterate ==
  /\ receiver.phase = "initial"
  /\ receiver.loops > 0
  /\ \E done \in {receiver.pulled = Len(receiver.source)} :
       \E rc \in {IF done THEN receiver
                  ELSE IF ~accepts(receiver.variant, receiver.source[receiver.pulled + 1])
                  THEN [receiver EXCEPT !.pulled = @ + 1]
                  ELSE LET payload == receiver.source[receiver.pulled + 1]
                           pathKey == join(payload.path)
                           newExternalValue == [n |-> receiver.pulled + 1, at |-> pathKey,
                                                data |-> payload.data]
                           pulled == [receiver EXCEPT !.pulled = @ + 1]
                       IN IF receiver.variant = "V1"
                          THEN onNewExternalValue(pulled, pathKey, newExternalValue)
                          ELSE [publish(pulled, pathKey, newExternalValue)
                                  EXCEPT !.externalValues =
                                    (pathKey :> <<newExternalValue>>) @@ @]} :
         receiver' =
           IF ~done /\ rc.numRequests > 0 THEN rc
           ELSE IF rc.variant = "V2" THEN [rc EXCEPT !.loops = @ - 1]
           ELSE IF done THEN close([rc EXCEPT !.loops = @ - 1, !.iterating = FALSE])
           ELSE [rc EXCEPT !.loops = @ - 1, !.iterating = FALSE]
  /\ UNCHANGED <<delegationContext, implemented, transformers, contexts, hooks, filtering,
                 wrapped, stitching, validation, sorting, planning>>
  /\ UNCHANGED engine

\* _request goes on after its await: the subscription's payload has come,
\* the request counts itself out and answers its info with the value
Resume(i) ==
  /\ receiver.phase = "initial"
  /\ i \in DOMAIN receiver.requests
  /\ receiver.requests[i].state = "woken"
  /\ receiver' = [receiver EXCEPT !.requests[i].state = "resolved",
                                  !.numRequests = @ - 1]
  /\ UNCHANGED <<delegationContext, implemented, transformers, contexts, hooks, filtering,
                 wrapped, stitching, validation, sorting, planning>>
  /\ UNCHANGED engine

\* the streams a Receiver is constructed with; returned tells whether the
\* iterator's return method has been called, which no statement of either
\* Receiver does
Streams == UNION {[1..n -> PatchPool] : n \in 0..MaxPatches}

InitReceiver ==
  /\ NoEngine
  /\ NoDelegation
  /\ NoFiltering
  /\ NoWrapping
  /\ NoPlanning
  /\ stitching = <<>>
  /\ validation = <<>>
  /\ sorting = <<>>
  /\ \E variant \in {"V1", "V2"}, source \in Streams, initial \in InitialData :
       receiver = [variant |-> variant, phase |-> "constructed", source |-> source,
                   initial |-> initial,
                   pulled |-> 0, externalValues |-> <<>>, infos |-> <<>>,
                   requests |-> <<>>, published |-> <<>>, numRequests |-> 0,
                   iterating |-> FALSE, loops |-> 0, closed |-> FALSE,
                   returned |-> FALSE]

NextReceiver ==
  \/ GetInitialResult
  \/ \E path \in RequestPaths : RequestV1(path)
  \/ \E path \in RequestPaths : RequestV2(path)
  \/ Iterate
  \/ \E i \in 1..MaxInfos : Resume(i)

SpecReceiver == InitReceiver /\ [][NextReceiver]_vars

(***************************************************************************)
(* The receiver: its loop, the order of its patches, its requests.         *)
(***************************************************************************)
\* C21: a receiver has at most one loop of _iterate active at any time,
\* whatever the order in which requests are made of it and payloads
\* arrive; a loop that is active is waiting for a payload it asked for
\* when the stream had not ended and numRequests was not 0.
C21_SingletonLoop == receiver.loops <= 1

\* the numbers of the patches taken from the stream so far that the
\* receiver accepts for a path key, in the order of the stream
TakenFor(rc, pathKey) ==
  SelectSeq([n \in 1..rc.pulled |-> n],
            LAMBDA n : /\ accepts(rc.variant, rc.source[n])
                       /\ join(rc.source[n].path) = pathKey)

\* the numbers of the values among `values` that came as patches of the
\* path key itself, and not as the value under a key of a parent's patch
PatchesOf(values, pathKey) ==
  [i \in DOMAIN SelectSeq(values, LAMBDA v : v.at = pathKey /\ v.n > 0) |->
     SelectSeq(values, LAMBDA v : v.at = pathKey /\ v.n > 0)[i].n]

\* the values published on a topic, in order
PublishedOn(rc, topic) ==
  [i \in DOMAIN SelectSeq(rc.published, LAMBDA e : e[1] = topic) |->
     SelectSeq(rc.published, LAMBDA e : e[1] = topic)[i][2]]

\* C22: the patches of a path key are published on the path key, and kept
\* for it by the first Receiver, in the order in which the stream sent
\* them, each once; a patch whose path does not begin with the root field
\* is neither published nor kept.
C22_SourceOrder ==
  /\ \A pathKey \in {join(p.path) : p \in PatchPool} :
       /\ PatchesOf(PublishedOn(receiver, pathKey), pathKey) = TakenFor(receiver, pathKey)
       /\ receiver.variant = "V1" =>
            PatchesOf(IF pathKey \in DOMAIN receiver.externalValues
                      THEN receiver.externalValues[pathKey] ELSE <<>>, pathKey)
              = TakenFor(receiver, pathKey)
  /\ \A i \in DOMAIN receiver.published :
       receiver.published[i][2].n > 0 =>
         receiver.source[receiver.published[i][2].n].path[1] = RootField
  /\ \A pathKey \in DOMAIN receiver.externalValues :
       \A i \in DOMAIN receiver.externalValues[pathKey] :
         receiver.externalValues[pathKey][i].n > 0 =>
           receiver.source[receiver.externalValues[pathKey][i].n].path[1] = RootField

C22_Witness ==
  /\ receiver.variant = "V1"
  /\ receiver.pulled = 2
  /\ "viewer" \in DOMAIN receiver.externalValues
  /\ PatchesOf(receiver.externalValues["viewer"], "viewer") = <<1, 2>>
  /\ PatchesOf(PublishedOn(receiver, "viewer"), "viewer") = <<1, 2>>
  /\ Len(receiver.published) > 2

\* C23: when the requests that subscribed have all been answered and the
\* loop of the first Receiver has stopped before the end of the stream,
\* with numRequests 0, no further payload is asked for and the return
\* method of the stream's iterator has been called.
C23_Cancellation ==
  (/\ receiver.variant = "V1"
   /\ \E i \in DOMAIN receiver.requests : receiver.requests[i].state = "resolved"
   /\ \A i \in DOMAIN receiver.requests :
        receiver.requests[i].state \notin {"waiting", "woken"}
   /\ receiver.numRequests = 0
   /\ receiver.loops = 0
   /\ ~receiver.closed)
    => receiver.returned

\* the loop that has stopped asks for no further payload until a request
\* subscribes again
C23_NotPumped ==
  [][(receiver.loops = 0 /\ receiver'.pulled # receiver.pulled) => FALSE]_vars

\* whether `prefix` begins the sequence `path`
StartsWith(path, prefix) ==
  Len(prefix) <= Len(path) /\ SubSeq(path, 1, Len(prefix)) = prefix

\* the payloads taken so far (0: the initial one) whose data has a value at
\* the path of a request
CarriersOf(rc, path) ==
  {n \in 1..rc.pulled :
     /\ accepts(rc.variant, rc.source[n])
     /\ \E d \in rc.source[n].data : StartsWith(rc.source[n].path \o d, path)}
  \cup {n \in {0} : \E d \in rc.initial : StartsWith(<<RootField>> \o d, path)}

\* C24: a request made of the first Receiver after the initial payload gets
\* the value a payload has brought for its path, whether the payload came
\* before the request (the request is answered without subscribing) or
\* after it (the request subscribed and is woken by the patch of its parent
\* or of an ancestor): no request waits, or fails, while a payload taken
\* from the stream has its value.
C24_DeferredDelivery ==
  receiver.variant = "V1" =>
    \A i \in DOMAIN receiver.requests :
      CarriersOf(receiver, receiver.requests[i].path) # {} =>
        /\ receiver.requests[i].state \in {"returned", "woken", "resolved"}
        /\ receiver.requests[i].value.n \in CarriersOf(receiver, receiver.requests[i].path)

(***************************************************************************)
(* The type candidates of a stitched schema and the types built from       *)
(* them.  A type is its name and where it was defined; a candidate is a    *)
(* type with the subschema it came from, if any.                           *)
(***************************************************************************)
\* operationTypeNames as setOperationTypeNames leaves them when typeDefs
\* carry no schema definition
operationTypeNames == [query |-> "Query", mutation |-> "Mutation",
                       subscription |-> "Subscription"]

\* isSpecifiedScalarType(type)
isSpecifiedScalarType(type) == type.name \in {"String", "Int", "Float", "Boolean", "ID"}

\* a named type, defined by a subschema, by typeDefs or handed in as a type
TypeFrom(name, origin) == [name |-> name, origin |-> origin]

\* the subschemas that can be stitched: their query type and their type
\* map in order; neither has a mutation or a subscription type
StitchedSubschemas ==
  [X |-> [query |-> "Query", typeMap |-> <<"Query", "User", "String", "__Schema">>],
   Y |-> [query |-> "RootQuery", typeMap |-> <<"String", "User", "Date", "RootQuery">>],
   Z |-> [query |-> "Query", typeMap |-> <<"Date", "Query", "__Type">>]]

\* candidate.type, candidate.subschema of a candidate; typeDefs and types
\* give candidates without subschema
Candidate(type, subschema) == [type |-> type, subschema |-> subschema]

\* addTypeCandidate(typeCandidates, name, typeCandidate); the record keeps
\* its keys in order of insertion
addTypeCandidate(typeCandidates, name, typeCandidate) ==
  IF \E i \in DOMAIN typeCandidates : typeCandidates[i].name = name
  THEN [i \in DOMAIN typeCandidates |->
          IF typeCandidates[i].name = name
          THEN [typeCandidates[i] EXCEPT !.candidates = Append(@, typeCandidate)]
          ELSE typeCandidates[i]]
  ELSE Append(typeCandidates, [name |-> name, candidates |-> <<typeCandidate>>])

\* the candidates one subschema adds: its query type under the name of the
\* query operation, then the types of its type map that are not
\* introspection types and not the query type, under their own names
RECURSIVE fromTypeMap(_, _, _, _)
fromTypeMap(typeCandidates, s, typeMap, i) ==
  IF i > Len(typeMap) THEN typeCandidates
  ELSE IF typeMap[i] \in {"__Schema", "__Type"} \/ typeMap[i] = StitchedSubschemas[s].query
  THEN fromTypeMap(typeCandidates, s, typeMap, i + 1)
  ELSE fromTypeMap(addTypeCandidate(typeCandidates, typeMap[i],
                                    Candidate(TypeFrom(typeMap[i], s), s)),
                   s, typeMap, i + 1)

fromSubschema(typeCandidates, s) ==
  fromTypeMap(addTypeCandidate(typeCandidates, operationTypeNames.query,
                               Candidate(TypeFrom(StitchedSubschemas[s].query, s), s)),
              s, StitchedSubschemas[s].typeMap, 1)

\* types.forEach(type => addTypeCandidate(typeCandidates, type.name, { type }))
RECURSIVE fromTypes(_, _, _, _)
fromTypes(typeCandidates, names, origin, i) ==
  IF i > Len(names) THEN typeCandidates
  ELSE fromTypes(addTypeCandidate(typeCandidates, names[i],
                                  Candidate(TypeFrom(names[i], origin), "none")),
                 names, origin, i + 1)

\* buildTypeCandidates: the subschemas in order, then the type definitions
\* of typeDefs, then the types
RECURSIVE fromSubschemas(_, _, _)
fromSubschemas(typeCandidates, subschemas, i) ==
  IF i > Len(subschemas) THEN typeCandidates
  ELSE fromSubschemas(fromSubschema(typeCandidates, subschemas[i]), subschemas, i + 1)

buildTypeCandidates_typesFirst(subschemas, typeDefs, types) ==
  fromSubschemas(fromTypes(fromTypes(<<>>, typeDefs, "typeDefs", 1), types, "types", 1),
                 subschemas, 1)

buildTypeCandidates(subschemas, typeDefs, types) ==
  fromTypes(fromTypes(fromSubschemas(<<>>, subschemas, 1), typeDefs, "typeDefs", 1),
            types, "types", 1)

\* what the onTypeConflict of the configuration returns: the left type,
\* the right type, or a type of its own
Resolution(onTypeConflict, left, right) ==
  CASE onTypeConflict = "left" -> left
    [] onTypeConflict = "right" -> right
    [] OTHER -> TypeFrom(left.name, "onTypeConflict")

\* onTypeConflictToCandidateSelector: cands.reduce without initial value.
\* acc is the previous candidate and the calls of onTypeConflict so far,
\* each with the types and the info it was handed
RECURSIVE reduceCandidates(_, _, _, _)
reduceCandidates(onTypeConflict, cands, i, acc) ==
  IF i > Len(cands) THEN acc
  ELSE LET prev == acc.prev
           next == cands[i]
           type == Resolution(onTypeConflict, prev.type, next.type)
           call == [left |-> prev.type, right |-> next.type,
                    info |-> [left |-> prev.subschema, right |-> prev.subschema],
                    prev |-> prev, next |-> next, returned |-> type]
       IN reduceCandidates(onTypeConflict, cands, i + 1,
            [prev |-> IF prev.type = type THEN prev
                      ELSE IF next.type = type THEN next
                      ELSE Candidate(type, "none"),
             calls |-> Append(acc.calls, call)])

onTypeConflictToCandidateSelector(onTypeConflict, cands) ==
  reduceCandidates(onTypeConflict, cands, 2, [prev |-> cands[1], calls |-> <<>>])

\* the default candidate selector: cands[cands.length - 1]
candidateSelector_first(cands) == cands[1]

candidateSelector(cands) == cands[Len(cands)]

\* the condition under which buildTypes merges the candidates of a name.
\* mergeTypes is true, false, a list of names or a function of the
\* candidates and the name; the function of the configurations selects the
\* names that have candidates of two subschemas
merges(typeName, candidates, mergeTypes, mergedTypes) ==
  \/ typeName = operationTypeNames.query
  \/ typeName = operationTypeNames.mutation
  \/ typeName = operationTypeNames.subscription
  \/ /\ mergeTypes.kind = "true"
     /\ ~\E i \in DOMAIN candidates : isSpecifiedScalarType(candidates[i].type)
  \/ /\ mergeTypes.kind = "function"
     /\ Cardinality({candidates[i].subschema : i \in DOMAIN candidates} \ {"none"}) >= 2
  \/ /\ mergeTypes.kind = "array"
     /\ typeName \in mergeTypes.names
  \/ typeName \in mergedTypes

\* buildTypes for one type name: mergeCandidates, or the type of the
\* selected candidate
buildType(named, config) ==
  IF merges(named.name, named.candidates, config.mergeTypes, config.mergedTypes)
  THEN [name |-> named.name, merged |-> TRUE, of |-> named.candidates,
        type |-> TypeFrom(named.name, "merged"), calls |-> <<>>]
  ELSE IF config.onTypeConflict # "none"
  THEN [name |-> named.name, merged |-> FALSE, of |-> named.candidates,
        type |-> onTypeConflictToCandidateSelector(config.onTypeConflict,
                                                   named.candidates).prev.type,
        calls |-> onTypeConflictToCandidateSelector(config.onTypeConflict,
                                                    named.candidates).calls]
  ELSE [name |-> named.name, merged |-> FALSE, of |-> named.candidates,
        type |-> candidateSelector(named.candidates).type, calls |-> <<>>]

\* the stitchSchemas configurations
StitchConfigs ==
  [subschemas : {<<"X">>, <<"X", "Y">>, <<"Y", "X">>, <<"Y", "Z">>, <<"Z", "Y", "X">>},
   typeDefs : {<<>>, <<"User">>, <<"Date", "Review">>},
   types : {<<>>, <<"User">>, <<"String">>},
   mergeTypes : {[kind |-> "false", names |-> {}], [kind |-> "true", names |-> {}],
                 [kind |-> "function", names |-> {}], [kind |-> "array", names |-> {"Date"}]},
   mergedTypes : {{}, {"User"}},
   onTypeConflict : {"none", "left", "right", "other"}]

\* buildTypeCandidates
BuildTypeCandidates ==
  /\ stitching.phase = "configured"
  /\ stitching' = [stitching EXCEPT
       !.phase = "candidates",
       !.typeCandidates = buildTypeCandidates(stitching.config.subschemas,
                                              stitching.config.typeDefs,
                                              stitching.config.types)]
  /\ UNCHANGED <<delegationContext, implemented, transformers, contexts, hooks, filtering,
                 wrapped, receiver, validation, sorting, planning>>
  /\ UNCHANGED engine

\* buildTypes, one type name of typeCandidates after the other
BuildTypes ==
  /\ stitching.phase = "candidates"
  /\ stitching' = [stitching EXCEPT
       !.phase = "built",
       !.typeMap = [i \in DOMAIN stitching.typeCandidates |->
                      buildType(stitching.typeCandidates[i], stitching.config)]]
  /\ UNCHANGED <<delegationContext, implemented, transformers, contexts, hooks, filtering,
                 wrapped, receiver, validation, sorting, planning>>
  /\ UNCHANGED engine

InitStitch ==
  /\ NoEngine
  /\ NoDelegation
  /\ NoFiltering
  /\ NoWrapping
  /\ NoPlanning
  /\ receiver = <<>>
  /\ validation = <<>>
  /\ sorting = <<>>
  /\ \E config \in StitchConfigs :
       stitching = [phase |-> "configured", config |-> config, typeCandidates |-> <<>>,
                    typeMap |-> <<>>]

NextStitch ==
  \/ BuildTypeCandidates
  \/ BuildTypes

SpecStitch == InitStitch /\ [][NextStitch]_vars

(***************************************************************************)
(* Merging and choosing among type candidates.                             *)
(***************************************************************************)
\* the subschemas of a configuration, in order, that define a type the
\* registry files under a name: their query type for the name of the query
\* operation, else the type of that name in their type map
DefinedBy(config, name) ==
  SelectSeq(config.subschemas,
            LAMBDA s : IF name = "Query" THEN TRUE
                       ELSE /\ Includes(StitchedSubschemas[s].typeMap, name)
                            /\ name # StitchedSubschemas[s].query
                            /\ name \notin {"__Schema", "__Type"})

\* the last candidate of a name in registration order: the type handed in,
\* else the type of typeDefs, else the type of the last subschema
LastRegistered(config, name) ==
  IF Includes(config.types, name) THEN TypeFrom(name, "types")
  ELSE IF Includes(config.typeDefs, name) THEN TypeFrom(name, "typeDefs")
  ELSE TypeFrom(IF name = "Query"
                THEN StitchedSubschemas[DefinedBy(config, name)[Len(DefinedBy(config, name))]].query
                ELSE name,
                DefinedBy(config, name)[Len(DefinedBy(config, name))])

\* C26: buildTypes merges the candidates of a type name exactly when the
\* name is the name of an operation root, or mergeTypes is true and the
\* name has no candidate that is a specified scalar, or the mergeTypes
\* predicate or name list selects it, or stitchingInfo.mergedTypes has it;
\* of the other names it takes, without onTypeConflict, the candidate
\* registered last: subschemas in order, then typeDefs, then types.
C26_MergeOrChoose ==
  stitching.phase = "built" =>
    LET config == stitching.config
    IN /\ {stitching.typeMap[i].name : i \in DOMAIN stitching.typeMap}
            = {name \in {"Query", "RootQuery", "User", "String", "Date", "Review",
                         "__Schema", "__Type"} :
                 \/ DefinedBy(config, name) # <<>>
                 \/ Includes(config.typeDefs, name)
                 \/ Includes(config.types, name)}
       /\ \A i \in DOMAIN stitching.typeMap :
            LET name == stitching.typeMap[i].name
            IN /\ stitching.typeMap[i].merged <=>
                    \/ name \in {"Query", "Mutation", "Subscription"}
                    \/ config.mergeTypes.kind = "true" /\ name # "String"
                    \/ config.mergeTypes.kind = "function" /\ Len(DefinedBy(config, name)) >= 2
                    \/ config.mergeTypes.kind = "array" /\ name \in config.mergeTypes.names
                    \/ name \in config.mergedTypes
               /\ (~stitching.typeMap[i].merged /\ config.onTypeConflict = "none") =>
                    stitching.typeMap[i].type = LastRegistered(config, name)

C26_Witness ==
  /\ stitching.phase = "built"
  /\ stitching.config.onTypeConflict = "none"
  /\ stitching.config.mergeTypes.kind = "true"
  /\ stitching.config.subschemas = <<"X", "Y">>
  /\ \E i \in DOMAIN stitching.typeMap :
       /\ stitching.typeMap[i].name = "String"
       /\ ~stitching.typeMap[i].merged
       /\ Len(stitching.typeMap[i].of) = 3
       /\ stitching.typeMap[i].type = TypeFrom("String", "types")
  /\ \E i \in DOMAIN stitching.typeMap :
       /\ stitching.typeMap[i].name = "User"
       /\ stitching.typeMap[i].merged
       /\ Len(stitching.typeMap[i].of) = 3

\* C27: with onTypeConflict, the candidates of a name that is not merged
\* are reduced from left to right: each call gets the type of the winner so
\* far and the type of the next candidate, with info.left the subschema of
\* the winner so far and info.right the subschema of the next candidate,
\* and the type the last call returns is the type of the name.
C27_ConflictReduction ==
  stitching.phase = "built" =>
    \A i \in DOMAIN stitching.typeMap :
      LET built == stitching.typeMap[i]
      IN (~built.merged /\ stitching.config.onTypeConflict # "none") =>
           /\ Len(built.calls) = Len(built.of) - 1
           /\ \A k \in DOMAIN built.calls :
                /\ built.calls[k].right = built.of[k + 1].type
                /\ built.calls[k].left = IF k = 1 THEN built.of[1].type
                                         ELSE built.calls[k - 1].returned
                /\ built.calls[k].info.left = built.calls[k].prev.subschema
                /\ built.calls[k].info.right = built.of[k + 1].subschema
           /\ built.calls # <<>> => built.type = built.calls[Len(built.calls)].returned

(***************************************************************************)
(* The validator of the stitching directives on a field with @merge.  A    *)
(* string argument is the sequence of its characters.                      *)
(***************************************************************************)
\* a string argument the directive does not supply, and a list argument
\* it does not supply
Absent == <<"absent">>

AbsentList == <<Absent>>

\* [_A-Za-z] and [_0-9A-Za-z] over the characters of the arguments
NameStart == {"_", "i", "d", "u", "k"}

NameContinue == NameStart \cup {"1"}

\* string.match(dottedNameRegEx), the expression
\* /^[_A-Za-z][_0-9A-Za-z]*(.[_A-Za-z][_0-9A-Za-z]*)*$/, in which the
\* period stands for any character: a character that cannot continue a name
\* must be followed by one that can start a name
dottedNameRegEx(string) ==
  /\ string # <<>>
  /\ string[1] \in NameStart
  /\ \A i \in 2..Len(string) :
       \/ string[i] \in NameContinue
       \/ i < Len(string) /\ string[i + 1] \in NameStart

\* keyDef.split(':'): the segments between the colons
RECURSIVE split(_, _)
split(string, segment) ==
  IF string = <<>> THEN <<segment>>
  ELSE IF Head(string) = ":" THEN <<segment>> \o split(Tail(string), <<>>)
  ELSE split(Tail(string), Append(segment, Head(string)))

\* the check of one entry of the key argument: its error, or "ok"
keyDefError(keyDef) ==
  LET parts == split(keyDef, <<>>)
      aliasOrKeyPath == parts[1]
      keyPath == IF Len(parts) < 2 THEN aliasOrKeyPath ELSE parts[2]
  IN IF ~dottedNameRegEx(keyPath) THEN "keyPathFormat"
     ELSE IF ~dottedNameRegEx(aliasOrKeyPath) THEN "aliasFormat"
     ELSE "ok"

\* key.forEach: the error of the first entry that has one
RECURSIVE keyError(_, _)
keyError(key, i) ==
  IF i > Len(key) THEN "ok"
  ELSE IF keyDefError(key[i]) # "ok" THEN keyDefError(key[i])
  ELSE keyError(key, i + 1)

\* the argument read as keyField: directiveArgumentMap.keyArg
keyFieldOf(directiveArgumentMap) == directiveArgumentMap.keyArg

\* the OBJECT_FIELD mapper on a field with @merge: the error it throws, or
\* "ok".  field is the type the field is on, its return type with null
\* and list wrappers removed as the validator removes them, and the number
\* of its arguments
validateMerge(field, directiveArgumentMap) ==
  LET mergeArgsExpr == directiveArgumentMap.argsExpr
      keyArg == directiveArgumentMap.keyArg
      keyField == keyFieldOf(directiveArgumentMap)
      key == directiveArgumentMap.key
      additionalArgs == directiveArgumentMap.additionalArgs
      typeNames == directiveArgumentMap.types
  IN IF field.typeName # "Query" THEN "notRootField"
     ELSE IF field.returnType = "list" THEN "notNamedType"
     ELSE IF keyArg = Absent /\ mergeArgsExpr = Absent /\ field.args # 1
     THEN "keyArgRequired"
     ELSE IF keyArg # Absent /\ ~dottedNameRegEx(keyArg) THEN "keyArgFormat"
     ELSE IF keyField # Absent /\ ~dottedNameRegEx(keyField) THEN "keyFieldFormat"
     ELSE IF key # AbsentList /\ keyField # Absent THEN "bothKeyFieldAndKey"
     ELSE IF key # AbsentList /\ keyError(key, 1) # "ok" THEN keyError(key, 1)
     ELSE IF mergeArgsExpr # Absent /\ (keyArg # Absent \/ additionalArgs # Absent)
     THEN "argsExprAndOthers"
     ELSE IF field.returnType \notin {"object", "interface", "union"} THEN "notComposite"
     ELSE IF typeNames # AbsentList /\ field.returnType \notin {"interface", "union"}
     THEN "typesNotAbstract"
     ELSE IF /\ typeNames # AbsentList
             /\ \E i \in DOMAIN typeNames : typeNames[i] \notin field.implementingTypeNames
     THEN "typesNotImplementing"
     ELSE "ok"

\* the fields with @merge of the schemas handed to the validator
MergeFields ==
  [typeName : {"Query", "User"},
   returnType : {"object", "interface", "scalar", "list"},
   args : {1, 2},
   implementingTypeNames : {{<<"u">>}}]

\* the arguments of their @merge directives; argsExpr and additionalArgs,
\* where supplied, are such that parseMergeArgsExpr and parseValue accept them
MergeDirectives ==
  [argsExpr : {Absent, <<"k">>},
   keyArg : {Absent, <<"i", "d">>, <<"1", "d">>},
   keyField : {Absent, <<"i", "d">>, <<"u", ".", "i", "d">>, <<"u", "-", "i", "d">>,
               <<"1", "d">>},
   key : {AbsentList, <<<<"i", "d">>>>, <<<<"k", ":", "u", ".", "i", "d">>, <<"i", "d">>>>,
          <<<<"k", ":", "1", "d">>>>, <<<<"1", "d", ":", "i", "d">>>>},
   additionalArgs : {Absent, <<"k">>},
   types : {AbsentList, <<<<"u">>>>, <<<<"d">>>>}]

\* the validator visits the field
Validate ==
  /\ validation.phase = "schema"
  /\ validation' = [validation EXCEPT
       !.phase = "validated",
       !.outcome = validateMerge(validation.field, validation.directive)]
  /\ UNCHANGED <<delegationContext, implemented, transformers, contexts, hooks, filtering,
                 wrapped, receiver, stitching, sorting, planning>>
  /\ UNCHANGED engine

InitValidate ==
  /\ NoEngine
  /\ NoDelegation
  /\ NoFiltering
  /\ NoWrapping
  /\ NoPlanning
  /\ receiver = <<>>
  /\ stitching = <<>>
  /\ sorting = <<>>
  /\ \E field \in MergeFields, directive \in MergeDirectives :
       validation = [phase |-> "schema", field |-> field, directive |-> directive,
                     outcome |-> "none"]

NextValidate == Validate

SpecValidate == InitValidate /\ [][NextValidate]_vars

\* the checks that precede those of keyField and key let the directive pass
PassesEarlierChecks(field, directive) ==
  /\ field.typeName = "Query"
  /\ field.returnType # "list"
  /\ directive.keyArg = Absent => (directive.argsExpr # Absent \/ field.args = 1)
  /\ directive.keyArg # Absent => directive.keyArg \in {<<"i", "d">>}

\* C28: for a @merge directive that passes the earlier checks the validator
\* throws the error about the format of keyField exactly when the keyField
\* argument is supplied and is not a dotted name, and otherwise throws the
\* error about both keyField and key exactly when the directive supplies a
\* key argument and a keyField argument.
C28_KeyExclusive ==
  (validation.phase = "validated"
   /\ PassesEarlierChecks(validation.field, validation.directive)) =>
    /\ validation.outcome = "keyFieldFormat" <=>
         /\ validation.directive.keyField # Absent
         /\ validation.directive.keyField \notin
              {<<"i", "d">>, <<"u", ".", "i", "d">>, <<"u", "-", "i", "d">>}
    /\ validation.outcome = "bothKeyFieldAndKey" <=>
         /\ validation.directive.keyField
              \in {<<"i", "d">>, <<"u", ".", "i", "d">>, <<"u", "-", "i", "d">>}
         /\ validation.directive.key # AbsentList

(***************************************************************************)
(* Step A by itself: sortSubschemasByProxiability on merged-type infos     *)
(* whose selection sets have sub-selections and siblings.                  *)
(***************************************************************************)
\* the selection sets a target's key, or its computed field, may have: none,
\* plain fields, a field with a sub-selection, alone, before and after a
\* sibling
SelectionSets ==
  {<<>>,
   Sel(<<"id">>),
   Sel(<<"score", "id">>),
   <<NodeSub("addr", Sel(<<"zip">>))>>,
   <<NodeSub("addr", Sel(<<"city", "zip">>))>>,
   <<NodeSub("addr", Sel(<<"city">>)), Node("score", "")>>,
   <<Node("score", ""), NodeSub("addr", Sel(<<"city">>))>>,
   <<NodeSub("addr", Sel(<<"zip">>)), NodeSub("name", Sel(<<"first">>))>>}

\* the merged-type infos: the key selection set of the targets B and C, and
\* the selection set of B's computed field nick, if it is one
SortConfigs ==
  {[sel |-> [t \in SubschemaSet |-> IF t = "B" THEN b ELSE IF t = "C" THEN c ELSE <<>>],
    fsel |-> [t \in SubschemaSet |->
                IF t = "B" /\ n # <<>>
                THEN [defined |-> TRUE, of |-> [f \in ComputedFields |-> n]]
                ELSE NoFieldSel],
    byField |-> TRUE] : b \in SelectionSets, c \in SelectionSets,
                        n \in {<<>>, Sel(<<"score">>),
                               <<NodeSub("addr", Sel(<<"city">>)), Node("score", "")>>}}

\* the source subschemas of a round, the others being its targets
SortSources == {<<"A">>, <<"D">>, <<"A", "D">>, <<"D", "A">>}

\* the field nodes of a round: one or two of the nodes a batch may hold,
\* __typename, a field no subschema serves and a node twice among them
SortNodes ==
  {Node("__typename", ""), Node("email", ""), Node("nick", ""), Node("nick", "n"),
   Node("score", ""), Node("id", ""), Node("ghost", "")}

SortFieldNodes == UNION {[1..n -> SortNodes] : n \in 1..2}

\* getMergedParentsFromFieldNodes up to its delegation plan: step A on the
\* merged-type info, the sources, the targets and the field nodes of the
\* round, then step B on the proxiable subschemas; contains keeps what
\* subschemaTypesContainSelectionSet answered for the key selection set of
\* each target that has one
SortSubschemas ==
  /\ sorting.phase = "round"
  /\ \E sorted \in {sortSubschemasByProxiability(sorting.mergedTypeInfo, sorting.sources,
                                                 sorting.targets, sorting.fieldNodes)} :
       sorting' = [sorting EXCEPT
         !.phase = "sorted",
         !.result = sorted,
         !.plan = buildDelegationPlan(sorting.fieldNodes, sorted.proxiableSubschemas),
         !.contains = [i \in DOMAIN sorting.targets |->
                         \/ sorting.mergedTypeInfo.sel[sorting.targets[i]] = <<>>
                         \/ subschemaTypesContainSelectionSet(
                              sorting.sources,
                              sorting.mergedTypeInfo.sel[sorting.targets[i]])]]
  /\ UNCHANGED <<delegationContext, implemented, transformers, contexts, hooks, filtering,
                 wrapped, receiver, stitching, validation, planning>>
  /\ UNCHANGED engine

InitSort ==
  /\ NoEngine
  /\ NoDelegation
  /\ NoFiltering
  /\ NoWrapping
  /\ NoPlanning
  /\ receiver = <<>>
  /\ stitching = <<>>
  /\ validation = <<>>
  /\ \E mergedTypeInfo \in SortConfigs, sources \in SortSources,
        fieldNodes \in SortFieldNodes :
       sorting = [phase |-> "round", mergedTypeInfo |-> mergedTypeInfo, sources |-> sources,
                  targets |-> SelectSeq(Subschemas, LAMBDA t : ~Includes(sources, t)),
                  fieldNodes |-> fieldNodes,
                  result |-> [proxiableSubschemas |-> <<>>, nonProxiableSubschemas |-> <<>>],
                  plan |-> EmptyPlan,
                  contains |-> <<>>]

NextSort == SortSubschemas

SpecSort == InitSort /\ [][NextSort]_vars

(***************************************************************************)
(* Proxiability and satisfied selection sets.                              *)
(***************************************************************************)
\* every selection of a selection set, with every selection under it, is a
\* field of one of the types at least; types are as in
\* typesContainSelectionSet
RECURSIVE Satisfied(_, _)
Satisfied(types, selectionSet) ==
  \A i \in DOMAIN selectionSet :
    /\ \E k \in DOMAIN types : selectionSet[i].name \in FieldsOfType(types[k])
    /\ selectionSet[i].sub # <<>> =>
         Satisfied(SelectSeq([k \in DOMAIN types |-> <<types[k][1], selectionSet[i].name>>],
                             LAMBDA t : selectionSet[i].name \in TypeFields(t[1])),
                   selectionSet[i].sub)

\* the merged types of the source subschemas
SourceTypes(sources) == [i \in DOMAIN sources |-> <<sources[i], "">>]

\* a target whose key selection set, if it has one, and whose selection
\* sets for the requested fields are satisfied by the types of the sources
SatisfiedTarget(c, sources, t, fieldNodes) ==
  /\ Satisfied(SourceTypes(sources), c.sel[t])
  /\ c.fsel[t].defined =>
       \A i \in DOMAIN fieldNodes :
         Satisfied(SourceTypes(sources), FieldSelectionSet(c, t, fieldNodes[i].name))

\* C29: step A puts every target in exactly one of proxiableSubschemas and
\* nonProxiableSubschemas, in the order of the targets, and the proxiable
\* ones are those whose key selection set and whose selection sets of the
\* requested fields are satisfied by the types of the source subschemas.
C29_Partition ==
  sorting.phase = "sorted" =>
    /\ sorting.result.proxiableSubschemas =
         SelectSeq(sorting.targets,
                   LAMBDA t : SatisfiedTarget(sorting.mergedTypeInfo, sorting.sources, t,
                                              sorting.fieldNodes))
    /\ sorting.result.nonProxiableSubschemas =
         SelectSeq(sorting.targets,
                   LAMBDA t : ~SatisfiedTarget(sorting.mergedTypeInfo, sorting.sources, t,
                                               sorting.fieldNodes))

\* the part of C29 that does not depend on what satisfied means: the two
\* lists are subsequences of the targets that share no target and leave
\* none out
C29_ExactlyOne ==
  sorting.phase = "sorted" =>
    \E chosen \in SUBSET SeqToSet(sorting.targets) :
      /\ sorting.result.proxiableSubschemas = SelectSeq(sorting.targets, LAMBDA t : t \in chosen)
      /\ sorting.result.nonProxiableSubschemas
           = SelectSeq(sorting.targets, LAMBDA t : t \notin chosen)

\* C30: typesContainSelectionSet answers true for a selection set exactly
\* when every field of it, at every level, with its siblings and its
\* sub-selections, is a field of the type of one source subschema at least.
C30_ContainsAllFields ==
  sorting.phase = "sorted" =>
    \A i \in DOMAIN sorting.targets :
      sorting.contains[i] <=>
        Satisfied(SourceTypes(sorting.sources), sorting.mergedTypeInfo.sel[sorting.targets[i]])

(***************************************************************************)
(* The delegation plan of a round.                                         *)
(***************************************************************************)
\* the subschemas that serve a field, in the order of the merged-type info
Owners(fieldNode) == ServedBy(fieldNode.name)

\* the owners of a field node among the proxiable subschemas of the round
ProxiableOwners(fieldNode) ==
  SelectSeq(Owners(fieldNode),
            LAMBDA s : Includes(sorting.result.proxiableSubschemas, s))

\* the field nodes of the round that are not __typename, in order
Planned == SelectSeq(sorting.fieldNodes, LAMBDA n : n.name # "__typename")

\* the buckets of the round's delegation map that hold a field node
BucketsOf(fieldNode) ==
  {i \in DOMAIN sorting.plan.delegationMap :
     Includes(sorting.plan.delegationMap[i].selections, fieldNode)}

\* C31: step B skips __typename, puts every other field node in exactly
\* one of proxiableFieldNodes and unproxiableFieldNodes, the proxiable ones
\* being those with a proxiable owner, puts every proxiable node in exactly
\* one bucket of the delegation map, whose subschema is proxiable and
\* serves the field, and leaves no bucket empty.
C31_ConsistentPlan ==
  sorting.phase = "sorted" =>
    LET plan == sorting.plan
        dm == plan.delegationMap
    IN /\ plan.proxiableFieldNodes
            = SelectSeq(Planned, LAMBDA n : ProxiableOwners(n) # <<>>)
       /\ plan.unproxiableFieldNodes
            = SelectSeq(Planned, LAMBDA n : ProxiableOwners(n) = <<>>)
       /\ \A i \in DOMAIN plan.proxiableFieldNodes :
            /\ Cardinality(BucketsOf(plan.proxiableFieldNodes[i])) = 1
            /\ \A b \in BucketsOf(plan.proxiableFieldNodes[i]) :
                 Includes(ProxiableOwners(plan.proxiableFieldNodes[i]), dm[b].s)
       /\ \A b \in DOMAIN dm :
            /\ dm[b].selections # <<>>
            /\ \A i \in DOMAIN dm[b].selections :
                 Includes(plan.proxiableFieldNodes, dm[b].selections[i])
            /\ \A a \in DOMAIN dm : dm[a].s = dm[b].s => a = b
       /\ Len(SeqCat([b \in DOMAIN dm |-> dm[b].selections])) = Len(plan.proxiableFieldNodes)

\* a round with __typename before a field of two subschemas, which is
\* delegated
C31_Witness ==
  /\ sorting.phase = "sorted"
  /\ sorting.fieldNodes = <<Node("__typename", ""), Node("nick", "")>>
  /\ sorting.plan.proxiableFieldNodes = <<Node("nick", "")>>
  /\ Len(sorting.plan.delegationMap) = 1

\* the subschemas that the field nodes before the i-th have made targets
\* of the round
TargetedBefore(i) ==
  {sorting.plan.delegationMap[b].s :
     b \in UNION {BucketsOf(sorting.fieldNodes[j]) : j \in 1..(i - 1)}}

\* the subschema whose bucket holds a proxiable field node
BucketSubschema(fieldNode) ==
  sorting.plan.delegationMap[CHOOSE b \in BucketsOf(fieldNode) : TRUE].s

\* C32: a field node that several subschemas serve goes to a proxiable
\* owner that an earlier field node of the round has made a target, the
\* first of them, and only when there is none to the first proxiable owner,
\* so that it opens a bucket only when no proxiable owner has one.
C32_PreferTargeted ==
  sorting.phase = "sorted" =>
    \A i \in DOMAIN sorting.fieldNodes :
      LET fieldNode == sorting.fieldNodes[i]
          owners == ProxiableOwners(fieldNode)
          targeted == SelectSeq(owners, LAMBDA s : s \in TargetedBefore(i))
      IN (fieldNode.name # "__typename" /\ Len(Owners(fieldNode)) > 1 /\ owners # <<>>) =>
           /\ targeted # <<>> =>
                /\ BucketSubschema(fieldNode) = targeted[1]
                /\ Len(sorting.plan.delegationMap) = Cardinality(TargetedBefore(i))
                     + Cardinality({sorting.plan.delegationMap[b].s :
                                      b \in UNION {BucketsOf(sorting.fieldNodes[j]) :
                                                     j \in (i + 1)..Len(sorting.fieldNodes)}}
                                   \ TargetedBefore(i))
           /\ targeted = <<>> => BucketSubschema(fieldNode) = owners[1]

\* score has made C a target when nick, which B serves before C, is
\* planned: nick goes to C and the round has one sub-request
C32_Witness ==
  /\ sorting.phase = "sorted"
  /\ sorting.fieldNodes = <<Node("score", ""), Node("nick", "")>>
  /\ ProxiableOwners(Node("nick", "")) = <<"B", "C">>
  /\ Len(sorting.plan.delegationMap) = 1
  /\ sorting.plan.delegationMap[1].s = "C"
  /\ sorting.plan.delegationMap[1].selections = sorting.fieldNodes

(***************************************************************************)
(* mergeExternalObjects as the planner calls it: on the parent, then on    *)
(* the merged parent, with the results of the round's sub-requests and     *)
(* their selection sets.                                                   *)
(***************************************************************************)
MaxMerges == 2

MaxGiven == 2

\* the objects the subschemas have returned when the parent is merged: the
\* parent (1), B's object with the key field id (2), C's (3), and B's
\* object merged with an object of C (6), whose map has an entry of its own
SubschemaResults(parentErrors) ==
  LET h1 == annotateExternalObject(AllocPlain(EmptyHeap, ParentData), 1, parentErrors,
                                   SourceSubschema)
      h2 == annotateExternalObject(AllocPlain(h1, SubResult("B", Sel(<<"id", "email">>))),
                                   2, <<"eB">>, "B")
      h3 == annotateExternalObject(AllocPlain(h2, SubResult("C", Sel(<<"nick", "score">>))),
                                   3, <<"eC">>, "C")
      h4 == annotateExternalObject(AllocPlain(h3, SubResult("B", Sel(<<"id", "email">>))),
                                   4, <<>>, "B")
      h5 == annotateExternalObject(AllocPlain(h4, SubResult("C", Sel(<<"nick">>))),
                                   5, <<"eN">>, "C")
      m == mergeExternalObjects(h5, 4, <<SrcObj(5)>>, <<Sel(<<"nick">>)>>)
  IN [objs |-> m.objs, maps |-> m.maps]

\* what a sub-request of a round may have settled to, with the selection
\* set it was sent
GivenPool ==
  {[source |-> SrcObj(2), selectionSet |-> Sel(<<"email">>)],
   [source |-> SrcObj(3), selectionSet |-> Sel(<<"nick", "score">>)],
   [source |-> SrcObj(6), selectionSet |-> Sel(<<"email", "nick">>)],
   [source |-> SrcErr("B"), selectionSet |-> Sel(<<"email">>)],
   [source |-> SrcErr("C"), selectionSet |-> <<Node("score", "s"), Node("nick", "")>>],
   [source |-> SrcErr("D"), selectionSet |-> Sel(<<"zip", "bonus">>)],
   [source |-> SrcNull, selectionSet |-> Sel(<<"score">>)],
   [source |-> SrcNull, selectionSet |-> Sel(<<"zip">>)]}

\* the response keys a source brings: those of its selection set, and the
\* keys of the object it is
GivenKeys(h, g) ==
  collectFields(g.selectionSet)
    \cup (IF g.source.kind = "obj" THEN KeysOf(h.objs[g.source.id].data) \ {"id"} ELSE {})

\* the delegation map of a round has one bucket per subschema and a field
\* node in one bucket, and no field node for a key the object has
FromOneRound(h, object, given) ==
  /\ \A i, j \in DOMAIN given : i # j => GivenKeys(h, given[i]) \cap GivenKeys(h, given[j]) = {}
  /\ \A i \in DOMAIN given : GivenKeys(h, given[i]) \cap KeysOf(h.objs[object].data) = {}

\* Promise.all(resultMap.keys()).then(results => mergeExternalObjects(...,
\* object, results, Array.from(resultMap.values()))) of a round, and the
\* next round's object
MergeRound(given) ==
  /\ Len(merging.calls) < MaxMerges
  /\ FromOneRound(merging.heap, merging.object, given)
  /\ \E m \in {mergeExternalObjects(merging.heap, merging.object,
                                    [i \in DOMAIN given |-> given[i].source],
                                    [i \in DOMAIN given |-> given[i].selectionSet])} :
       /\ ~m.threw
       /\ merging' = [heap |-> [objs |-> m.objs, maps |-> m.maps],
                      object |-> m.result,
                      calls |-> Append(merging.calls,
                                  [target |-> merging.object,
                                   sources |-> [i \in DOMAIN given |-> given[i].source],
                                   selectionSets |-> [i \in DOMAIN given |-> given[i].selectionSet],
                                   before |-> merging.heap,
                                   result |-> m.result])]
  /\ UNCHANGED <<delegationContext, implemented, transformers, contexts, hooks, filtering,
                 wrapped, receiver, stitching, validation, sorting, batching>>
  /\ UNCHANGED engine

InitMergeRound ==
  /\ NoEngine
  /\ NoDelegation
  /\ NoFiltering
  /\ NoWrapping
  /\ receiver = <<>>
  /\ stitching = <<>>
  /\ validation = <<>>
  /\ sorting = <<>>
  /\ batching = <<>>
  /\ \E parentErrors \in {<<>>, <<"eP">>} :
       merging = [heap |-> SubschemaResults(parentErrors), object |-> Parent, calls |-> <<>>]

NextMergeRound == \E given \in UNION {[1..n -> GivenPool] : n \in 1..MaxGiven} : MergeRound(given)

SpecMergeRound == InitMergeRound /\ [][NextMergeRound]_vars

\* the last mergeExternalObjects call
LastMerge == merging.calls[Len(merging.calls)]

CarryingSources(k) ==
  {i \in DOMAIN LastMerge.sources :
     /\ LastMerge.sources[i].kind = "obj"
     /\ LastMerge.before.objs[LastMerge.sources[i].id].data[k] # [t |-> "undef"]}

\* the entry of an object's own field-subschema map for a key, None where
\* it has none
OwnEntry(h, id, k) == IF h.objs[id].fsm = 0 THEN None ELSE h.maps[h.objs[id].fsm][k]

C37_TargetUnchanged ==
  merging.calls # <<>> =>
    LET c == LastMerge
    IN /\ merging.heap.objs[c.target].data = c.before.objs[c.target].data
       /\ \A k \in RKeys :
            getSubschema(merging.heap, c.target, k) = getSubschema(c.before, c.target, k)

\* the part of C37 that is about values the target has: their subschema
\* is the one that produced them
C37_OwnValues ==
  merging.calls # <<>> =>
    \A k \in KeysOf(merging.heap.objs[Parent].data) :
      getSubschema(merging.heap, Parent, k) = SourceSubschema

(***************************************************************************)
(* The merged-type resolvers of one planner invocation.                    *)
(***************************************************************************)
\* C36: in one planner invocation, over all of its rounds, the merged-type
\* resolver of a subschema is invoked at most once, never for the origin
\* subschema of the parent and never for a subschema that is among the
\* sources of the round, which are the origin and the proxiable subschemas
\* of the rounds before.
C36_ResolversOnce ==
  /\ \A i, j \in DOMAIN log : log[i].s = log[j].s => i = j
  /\ \A i \in DOMAIN log :
       /\ log[i].s # SourceSubschema
       /\ ~Includes(rounds[log[i].round].sources, log[i].s)
       /\ \A r \in 1..(log[i].round - 1) :
            ~Includes(rounds[r].proxiableSubschemas, log[i].s)

\* an invocation of two rounds that delegates in both, two field nodes to
\* one subschema in the first
C36_Witness ==
  /\ Len(rounds) = 2
  /\ \E i, j \in DOMAIN log : log[i].round = 1 /\ log[j].round = 2
  /\ \E b \in DOMAIN rounds[1].delegationMap : Len(rounds[1].delegationMap[b].selections) = 2

\* C40: for a merged type with target subschemas and no entry of
\* selectionSetsByField, the batch function of a batch of resolves on an
\* external parent goes on to plan and returns a merged-parent promise for
\* each info; the batch does not fail as a whole.
C40_BatchCompletes ==
  (pc = "planning" /\ ~cfg.byField) =>
    /\ rounds # <<>>
    /\ \E i \in DOMAIN infoResult : infoResult[i].loaded /\ infoResult[i].res # "error"

(***************************************************************************)
(* The field nodes of a batch.  An info holds every field node of the      *)
(* operation that has its response key under the parent: a field selected  *)
(* in two fragments comes with two nodes.                                  *)
(***************************************************************************)
Info(fieldNodes) == [fieldName |-> fieldNodes[1].name, fieldNodes |-> fieldNodes]

\* the infos a batch on the parent may hold
BatchInfos ==
  {Info(<<Node("email", "")>>),
   Info(<<Node("email", ""), Node("email", "")>>),
   Info(<<Node("nick", "")>>),
   Info(<<Node("nick", "n"), Node("nick", "n")>>),
   Info(<<Node("score", "")>>),
   Info(<<Node("score", "s")>>),
   Info(<<Node("bonus", "")>>)}

getResponseKeyFromInfo(info) == ResponseKey(info.fieldNodes[1])

\* the executor resolves a response key once on a parent
InfoBatches ==
  {b \in UNION {[1..n -> BatchInfos] : n \in 1..MaxInfos} :
     \A i, j \in DOMAIN b :
       getResponseKeyFromInfo(b[i]) = getResponseKeyFromInfo(b[j]) => i = j}

\* a batch whose field nodes are reduced to one per response key
RECURSIVE concatFieldNodes_deduplicated(_)
concatFieldNodes_deduplicated(infos) ==
  IF infos = <<>> THEN <<>>
  ELSE <<Head(infos).fieldNodes[1]>> \o concatFieldNodes_deduplicated(Tail(infos))

\* [].concat(...infos.map(info => info.fieldNodes))
concatFieldNodes(infos) == SeqCat([i \in DOMAIN infos |-> infos[i].fieldNodes])

\* keyFieldNodes after the type's selection set and the selection sets of
\* the infos' fields have been added to it
keyFieldNodes(c, infos) ==
  AddFieldSelectionSets(addSelectionSetToMap(<<>>, selectionSetsByType(c)), c,
                        [i \in DOMAIN infos |-> Node(infos[i].fieldName, "")])

\* getMergedParentsFromInfos / getFields up to the call of the planner:
\* the field nodes it hands over, or the TypeError of a type without an
\* entry in selectionSetsByField
CombineInfos ==
  /\ batching.phase = "batched"
  /\ batching' = [batching EXCEPT
       !.phase = IF batching.cfg.byField THEN "planned" ELSE "threw",
       !.fieldNodes = IF batching.cfg.byField
                      THEN concatFieldNodes(batching.infos)
                             \o keyFieldNodes(batching.cfg, batching.infos)
                      ELSE <<>>]
  /\ UNCHANGED <<delegationContext, implemented, transformers, contexts, hooks, filtering,
                 wrapped, receiver, stitching, validation, sorting, merging>>
  /\ UNCHANGED engine

InitBatch ==
  /\ NoEngine
  /\ NoDelegation
  /\ NoFiltering
  /\ NoWrapping
  /\ receiver = <<>>
  /\ stitching = <<>>
  /\ validation = <<>>
  /\ sorting = <<>>
  /\ merging = <<>>
  /\ \E c \in Configs, infos \in InfoBatches :
       batching = [phase |-> "batched", cfg |-> c, infos |-> infos, fieldNodes |-> <<>>]

NextBatch == CombineInfos

SpecBatch == InitBatch /\ [][NextBatch]_vars

\* the field nodes of the batch's infos, and how many they are
RequestedNodes == UNION {SeqToSet(batching.infos[i].fieldNodes) : i \in DOMAIN batching.infos}

RequestedCount ==
  Len(SeqCat([i \in DOMAIN batching.infos |-> batching.infos[i].fieldNodes]))

\* the nodes of the type's selection set and of the selection sets of the
\* batch's fields whose field the source subschema's type does not have
MissingKeyNodes ==
  {n \in SeqToSet(selectionSetsByType(batching.cfg))
           \cup UNION {SeqToSet(selectionSetsByField(batching.cfg, batching.infos[i].fieldName)) :
                         i \in DOMAIN batching.infos} :
     n.name \notin TypeFields(SourceSubschema)}

\* the key field nodes follow the requested ones, each once
KeyPartOnce(requested) ==
  LET fieldNodes == batching.fieldNodes
      keys == SubSeq(fieldNodes, requested + 1, Len(fieldNodes))
  IN /\ requested <= Len(fieldNodes)
     /\ SeqToSet(keys) = MissingKeyNodes
     /\ \A i, j \in DOMAIN keys : keys[i] = keys[j] => i = j

\* C35 as stated: the field nodes handed to the planner are the field
\* nodes of the batch's infos with one node per response key, followed by
\* the key field nodes the source subschema's type lacks, each once.
C35_Deduplicated ==
  batching.phase = "planned" =>
    \E requested \in 0..Len(batching.fieldNodes) :
      /\ SeqToSet(SubSeq(batching.fieldNodes, 1, requested)) = RequestedNodes
      /\ \A i, j \in 1..requested :
           ResponseKey(batching.fieldNodes[i]) = ResponseKey(batching.fieldNodes[j]) => i = j
      /\ KeyPartOnce(requested)

\* C35 amended: the field nodes handed to the planner are all field nodes
\* of the batch's infos, in the order of the infos and of each info's
\* nodes, none left out although nodes of one info share its response key,
\* followed by the key field nodes the source subschema's type lacks, each
\* once.
C35_Concatenated ==
  batching.phase = "planned" =>
    /\ RequestedCount <= Len(batching.fieldNodes)
    /\ \A i \in DOMAIN batching.infos :
         \A k \in DOMAIN batching.infos[i].fieldNodes :
           batching.fieldNodes[
               Len(SeqCat([j \in 1..(i - 1) |-> batching.infos[j].fieldNodes])) + k]
             = batching.infos[i].fieldNodes[k]
    /\ KeyPartOnce(RequestedCount)

\* a batch of two infos, one with two nodes, to which a key field node is
\* added
C35_Witness ==
  /\ batching.phase = "planned"
  /\ Len(batching.infos) = 2
  /\ Len(batching.infos[1].fieldNodes) = 2
  /\ Len(batching.fieldNodes) = 4

(***************************************************************************)
(* The Receiver under fair scheduling: the payload a loop of _iterate      *)
(* awaits arrives, the source being a stream that yields its payloads and  *)
(* then ends, and a _request whose subscription has yielded goes on after  *)
(* its await.  Nothing obliges a resolver to make a request.               *)
(***************************************************************************)
SpecReceiverFair ==
  /\ InitReceiver
  /\ [][NextReceiver]_vars
  /\ WF_vars(Iterate)
  /\ WF_vars(\E i \in 1..MaxInfos : Resume(i))

\* the request is made and its promise is pending: it awaits the payload of
\* its subscription, or the payload has come and _request has not gone on
Outstanding(i) ==
  /\ i \in DOMAIN receiver.requests
  /\ receiver.requests[i].state \in {"waiting", "woken"}

\* every payload of the source has been pulled
StreamEnded == receiver.pulled = Len(receiver.source)

\* C38: once the source stream has ended, every outstanding request is
\* eventually resolved, with a value if its patch arrived and with no value
\* otherwise; no request stays pending forever, a request for a path no
\* patch carried included.
C38_EventuallyResolved ==
  \A i \in 1..MaxInfos : (StreamEnded /\ Outstanding(i)) ~> ~Outstanding(i)

\* the same of the first Receiver alone, whose _iterate closes the pubsub
\* when the stream has ended
C38_FirstReceiver ==
  \A i \in 1..MaxInfos :
    (receiver.variant = "V1" /\ StreamEnded /\ Outstanding(i)) ~> ~Outstanding(i)

\* the second Receiver with a request that awaits a payload while the
\* stream has ended and no loop of _iterate is left
C38_Pending ==
  /\ receiver.variant = "V2"
  /\ StreamEnded
  /\ receiver.loops = 0
  /\ \E i \in DOMAIN receiver.requests : receiver.requests[i].state = "waiting"

\* the requests that have subscribed and have not been published a value
Unpublished == {i \in DOMAIN receiver.requests : receiver.requests[i].state = "waiting"}

\* numRequests is not negative
C39_NotNegative == receiver.numRequests >= 0

\* numRequests is the number of subscribed requests not yet published to
C39_CountsUnpublished == receiver.numRequests = Cardinality(Unpublished)

\* a payload is pulled from the source only while a request is unpublished
C39_PullsOnDemand ==
  [][receiver'.pulled > receiver.pulled => Unpublished # {}]_vars

\* C39: the receiver never over-pulls: numRequests is never negative and
\* counts only the requests that have subscribed and have not yet been
\* published a value, so once the value for the last outstanding request
\* is published no further patch is pulled from the source until a new
\* request arrives.
C39_NeverOverPulls ==
  /\ [](C39_NotNegative /\ C39_CountsUnpublished)
  /\ C39_PullsOnDemand

\* the same pull condition for each Receiver alone
C39_FirstPullsOnDemand ==
  [][(receiver.variant = "V1" /\ receiver'.pulled > receiver.pulled)
       => Unpublished # {}]_vars

C39_SecondPullsOnDemand ==
  [][(receiver.variant = "V2" /\ receiver'.pulled > receiver.pulled)
       => Unpublished # {}]_vars

\* the count for the first Receiver: the requests whose _request has not
\* gone on after its await
C39_CountsAwaited ==
  receiver.variant = "V1" =>
    receiver.numRequests =
      Cardinality({i \in DOMAIN receiver.requests :
                     receiver.requests[i].state \in {"waiting", "woken"}})

====
